---- MODULE Spec2Model ----
(***************************************************************************)
(* soda-gql SWC transformer: the per-file transform pipeline                *)
(*   stub check -> artifact parse -> source parse -> MetadataCollector ->   *)
(*   GqlCallFinder -> GqlTransformer -> ImportManager ->                    *)
(*   insert_runtime_calls -> emit                                           *)
(* Source text is a sequence of statements; the parser turns each statement *)
(* into a syntax tree whose call expressions carry their source span.       *)
(* Strings are TLA+ strings (\o, Len and SubSeq act on them as on Rust      *)
(* strings).                                                                *)
(***************************************************************************)
EXTENDS Naturals, Sequences, FiniteSets, TLC

VARIABLES input, pc, artifact, module, collector, finder, transformer, hist, result, runs, first,
          instance, last_call

vars == <<input, pc, artifact, module, collector, finder, transformer, hist, result, runs, first,
          instance, last_call>>

\* Longest source text, in statements.
MaxItems == 3

(***************************************************************************)
(* Strings                                                                  *)
(***************************************************************************)
RECURSIVE ReplaceBackslash(_)
\* str::replace('\\', "/")
ReplaceBackslash(s) ==
    IF Len(s) = 0 THEN ""
    ELSE (IF SubSeq(s, 1, 1) = "\\" THEN "/" ELSE SubSeq(s, 1, 1))
         \o ReplaceBackslash(SubSeq(s, 2, Len(s)))

\* str::starts_with
StartsWith(s, p) == Len(s) >= Len(p) /\ SubSeq(s, 1, Len(p)) = p

RECURSIVE JoinFrom(_, _, _)
JoinFrom(segs, i, sep) ==
    IF i > Len(segs) THEN ""
    ELSE IF i = Len(segs) THEN segs[i]
    ELSE segs[i] \o sep \o JoinFrom(segs, i + 1, sep)

\* Vec<String>::join
Join(segs, sep) == JoinFrom(segs, 1, sep)

\* TLC evaluates an operator's argument only when the operator reads it, so a
\* state threaded through a traversal piles up unevaluated; comparing a value
\* with itself evaluates it on the spot
Evaluated(v) == v = v

\* HashMap::get with a default, and HashMap::insert
GetOr(m, k, d) == IF k \in DOMAIN m THEN m[k] ELSE d

Put(m, k, v) == (k :> v) @@ m

EmptyMap == <<>>

RUNTIME_MODULE == "@soda-gql/runtime"

RUNTIME_IMPORT_NAME == "gqlRuntime"

CJS_RUNTIME_NAME == "__soda_gql_runtime"

\* swc_core::common::DUMMY_SP, the span of every synthesized node
DUMMY_SP == <<0, 0>>

(***************************************************************************)
(* Syntax trees.  Every node is [t, name, callee, kids, span]:              *)
(*   t      the node kind                                                   *)
(*   name   identifier / literal value / binding name / import source       *)
(*   callee for a call: the member chain of its callee, base first          *)
(*          (gql.default is <<"gql", "default">>, require is <<"require">>) *)
(*   kids   the children, in visiting order                                 *)
(*   span   <<statement index, index within the statement>>                 *)
(***************************************************************************)
Node(t, name, callee, kids, id) ==
    [t |-> t, name |-> name, callee |-> callee, kids |-> kids, span |-> <<0, id>>]

Ident(n) == Node("ident", n, <<>>, <<>>, 0)

StrLit(v) == Node("str", v, <<>>, <<>>, 0)

Call(chain, args, id) == Node("call", "", chain, args, id)

Arrow(body) == Node("arrow", "", <<>>, <<body>>, 0)

FnExpr(name, block) == Node("fn", name, <<>>, <<block>>, 0)

Block(stmts) == Node("block", "", <<>>, stmts, 0)

Return(arg) == Node("return", "", <<>>, <<arg>>, 0)

ReturnVoid == Node("return", "", <<>>, <<>>, 0)

Spread(e) == Node("spread", "", <<>>, <<e>>, 0)

ArrayLit(elems) == Node("array", "", <<>>, elems, 0)

ObjectLit(props) == Node("object", "", <<>>, props, 0)

KeyValue(key, value) == Node("prop", key, <<>>, <<value>>, 0)

Declarator(name, init) == Node("decl", name, <<>>, <<init>>, 0)

VarDecl(decls) == Node("var", "", <<>>, decls, 0)

ExprStmt(e) == Node("stmt", "", <<>>, <<e>>, 0)

Named(local) == Node("named", local, <<>>, <<>>, 0)

Default(local) == Node("default", local, <<>>, <<>>, 0)

ImportDecl(src, specs) == Node("import", src, <<>>, specs, 0)

FnDecl(name, block) == Node("fndecl", name, <<>>, <<block>>, 0)

ClassDecl(name, members) == Node("classdecl", name, <<>>, members, 0)

ClassExpr(name, members) == Node("classexpr", name, <<>>, members, 0)

ClassMethod(key, block) == Node("method", key, <<>>, <<block>>, 0)

\* target = value, the target given as its member chain
Assign(target, value) == Node("assign", "", target, <<value>>, 0)

\* gql.default(<callback>) as the initializer of `const name`
GqlDef(name, callback) ==
    VarDecl(<<Declarator(name, Call(<<"gql", "default">>, <<callback>>, 1))>>)

\* the inner builder call b.M(a1, ..., an)
Builder(b, m, args) == Call(<<b, m>>, args, 2)

(***************************************************************************)
(* Source text and the parser (transformer.rs 72-99).  A source text is     *)
(* [kind, toks, body]: hand-written text is a sequence of statements        *)
(* (kind "raw"), emitted text is the printed form of a module body (kind    *)
(* "emitted").  The parser knows the statements below; anything else is a   *)
(* syntax error.                                                            *)
(***************************************************************************)
S_IMPORT_Y == "import y from 'y';"

S_IMPORT_LEGACY == "import { gql } from '@/legacy';"

S_IMPORT_LEGACY_FOO == "import x from '@/legacy/foo';"

S_IMPORT_LEGACY_OTHER == "import x from '@/legacy-other';"

S_IMPORT_RT_OTHER == "import { other } from '@soda-gql/runtime';"

S_IMPORT_RT_HAS == "import { gqlRuntime } from '@soda-gql/runtime';"

S_OP == "const a = gql.default(({ op }) => op.Op('x', getSlices));"

S_OP_NOARG == "const b = gql.default(({ op }) => op.Op('x'));"

S_MODEL == "const m = gql.default(({ model }) => model.User({}, fields, normalize));"

S_MODEL_2ARGS == "const n = gql.default(({ model }) => model.User({}, fields));"

S_PAIR == "const a = [gql.default(() => f.A(1, 2, 3)), gql.default(() => f.B(1, 2, 3))];"

S_DOLLAR == "const a$1 = gql.default(() => f.C(1, 2, 3));"

S_FN_CALLBACK == "const q = gql.default(function () { return op.Q('q', s); });"

S_STALE == "const s = gql.default(() => f.S(1, 2, 3));"

S_PLAIN == "foo(bar);"

S_REQUIRE_LEGACY == "const g = require('@/legacy');"

S_REQUIRE_Y == "const y = require('y');"

S_ARROW_VAR == "const arrow = gql.default(() => f.R(1, 2, 3));"

S_IN_ARROW == "const h = () => gql.default(() => f.H(1, 2, 3));"

S_IN_FN == "const k = function () { return gql.default(() => f.K(1, 2, 3)); };"

S_NESTED == "const w = gql.default(() => f.W(gql.default(() => f.V(1, 2, 3)), () => 2, 3));"

S_OBJECT == "const o = { p: gql.default(() => f.P(1, 2, 3)), 'q': gql.default(() => f.Q(1, 2, 3)) };"

S_CLASS == "class C { m() { return gql.default(() => f.M(1, 2, 3)); } }"

S_CLASS_EXPR == "const K = class Inner { m() { return gql.default(() => f.N(1, 2, 3)); } };"

S_FN_DECL == "function g() { return gql.default(() => f.G(1, 2, 3)); }"

S_EXPORTS == "exports.e = gql.default(() => f.E(1, 2, 3));"

S_BLOCK_ONE == "const a = gql.default(() => { return op.Op('x', getSlices); });"

S_BLOCK_TWO ==
    "const a = gql.default(() => { return op.Op('x', getSlices); return op.Op('y', other); });"

S_BLOCK_VOID_FIRST == "const a = gql.default(() => { return; return op.Op('x', getSlices); });"

S_BLOCK_NONCALL == "const a = gql.default(() => { return getSlices; });"

S_BLOCK_NO_RETURN == "const a = gql.default(() => { foo(bar); });"

S_REQUIRE_DEFAULT == "const g = __importDefault(require('@/legacy'));"

S_REQUIRE_DOUBLE == "const g = __importStar(__importDefault(require('@/legacy/foo')));"

S_REQUIRE_MIXED ==
    "const y = require('y'), g = require('@/legacy'), z = __importStar(require('z')), d = require(dyn);"

S_REQUIRE_ALL_LEGACY ==
    "const g = require('@/legacy'), h = __importStar(require('@/legacy/foo'));"

S_REQUIRE_RT == "const __soda_gql_runtime = require('@soda-gql/runtime');"

S_SLICE == "const sl = gql.default(() => query.slice({}, fields, projection));"

S_SYNTAX_ERROR == "const = ;"

Args3 == <<Ident("x1"), Ident("x2"), Ident("x3")>>

Statement(tok) ==
    CASE tok = S_IMPORT_Y -> ImportDecl("y", <<Default("y")>>)
      [] tok = S_IMPORT_LEGACY -> ImportDecl("@/legacy", <<Named("gql")>>)
      [] tok = S_IMPORT_LEGACY_FOO -> ImportDecl("@/legacy/foo", <<Default("x")>>)
      [] tok = S_IMPORT_LEGACY_OTHER -> ImportDecl("@/legacy-other", <<Default("x")>>)
      [] tok = S_IMPORT_RT_OTHER -> ImportDecl(RUNTIME_MODULE, <<Named("other")>>)
      [] tok = S_IMPORT_RT_HAS -> ImportDecl(RUNTIME_MODULE, <<Named(RUNTIME_IMPORT_NAME)>>)
      [] tok = S_OP ->
            GqlDef("a", Arrow(Builder("op", "Op", <<StrLit("x"), Ident("getSlices")>>)))
      [] tok = S_OP_NOARG ->
            GqlDef("b", Arrow(Builder("op", "Op", <<StrLit("x")>>)))
      [] tok = S_MODEL ->
            GqlDef("m", Arrow(Builder("model", "User",
                          <<ObjectLit(<<>>), Ident("fields"), Ident("normalize")>>)))
      [] tok = S_MODEL_2ARGS ->
            GqlDef("n", Arrow(Builder("model", "User", <<ObjectLit(<<>>), Ident("fields")>>)))
      [] tok = S_PAIR ->
            VarDecl(<<Declarator("a", ArrayLit(<<
                Call(<<"gql", "default">>, <<Arrow(Call(<<"f", "A">>, Args3, 2))>>, 1),
                Call(<<"gql", "default">>, <<Arrow(Call(<<"f", "B">>, Args3, 4))>>, 3)>>))>>)
      [] tok = S_DOLLAR -> GqlDef("a$1", Arrow(Builder("f", "C", Args3)))
      [] tok = S_FN_CALLBACK ->
            GqlDef("q", FnExpr("", Block(<<Return(
                Builder("op", "Q", <<StrLit("q"), Ident("s")>>))>>)))
      [] tok = S_STALE -> GqlDef("s", Arrow(Builder("f", "S", Args3)))
      [] tok = S_PLAIN -> ExprStmt(Call(<<"foo">>, <<Ident("bar")>>, 1))
      [] tok = S_REQUIRE_LEGACY ->
            VarDecl(<<Declarator("g", Call(<<"require">>, <<StrLit("@/legacy")>>, 1))>>)
      [] tok = S_REQUIRE_Y ->
            VarDecl(<<Declarator("y", Call(<<"require">>, <<StrLit("y")>>, 1))>>)
      [] tok = S_ARROW_VAR -> GqlDef("arrow", Arrow(Builder("f", "R", Args3)))
      [] tok = S_IN_ARROW ->
            VarDecl(<<Declarator("h", Arrow(
                Call(<<"gql", "default">>, <<Arrow(Builder("f", "H", Args3))>>, 1)))>>)
      [] tok = S_NESTED ->
            GqlDef("w", Arrow(Builder("f", "W",
                <<Call(<<"gql", "default">>, <<Arrow(Call(<<"f", "V">>, Args3, 4))>>, 3),
                  Arrow(Ident("x2")), Ident("x3")>>)))
      [] tok = S_OBJECT ->
            VarDecl(<<Declarator("o", ObjectLit(<<
                KeyValue("p", Call(<<"gql", "default">>,
                                   <<Arrow(Call(<<"f", "P">>, Args3, 2))>>, 1)),
                KeyValue("q", Call(<<"gql", "default">>,
                                   <<Arrow(Call(<<"f", "Q">>, Args3, 4))>>, 3))>>))>>)
      [] tok = S_CLASS ->
            ClassDecl("C", <<ClassMethod("m", Block(<<Return(
                Call(<<"gql", "default">>, <<Arrow(Builder("f", "M", Args3))>>, 1))>>))>>)
      [] tok = S_CLASS_EXPR ->
            VarDecl(<<Declarator("K", ClassExpr("Inner", <<ClassMethod("m", Block(<<Return(
                Call(<<"gql", "default">>, <<Arrow(Builder("f", "N", Args3))>>, 1))>>))>>))>>)
      [] tok = S_FN_DECL ->
            FnDecl("g", Block(<<Return(
                Call(<<"gql", "default">>, <<Arrow(Builder("f", "G", Args3))>>, 1))>>))
      [] tok = S_EXPORTS ->
            ExprStmt(Assign(<<"exports", "e">>,
                Call(<<"gql", "default">>, <<Arrow(Builder("f", "E", Args3))>>, 1)))
      [] tok = S_BLOCK_ONE ->
            GqlDef("a", Arrow(Block(<<Return(
                Builder("op", "Op", <<StrLit("x"), Ident("getSlices")>>))>>)))
      [] tok = S_BLOCK_TWO ->
            GqlDef("a", Arrow(Block(<<
                Return(Builder("op", "Op", <<StrLit("x"), Ident("getSlices")>>)),
                Return(Call(<<"op", "Op">>, <<StrLit("y"), Ident("other")>>, 3))>>)))
      [] tok = S_BLOCK_VOID_FIRST ->
            GqlDef("a", Arrow(Block(<<
                ReturnVoid,
                Return(Builder("op", "Op", <<StrLit("x"), Ident("getSlices")>>))>>)))
      [] tok = S_BLOCK_NONCALL ->
            GqlDef("a", Arrow(Block(<<Return(Ident("getSlices"))>>)))
      [] tok = S_BLOCK_NO_RETURN ->
            GqlDef("a", Arrow(Block(<<ExprStmt(Call(<<"foo">>, <<Ident("bar")>>, 2))>>)))
      [] tok = S_REQUIRE_DEFAULT ->
            VarDecl(<<Declarator("g", Call(<<"__importDefault">>,
                <<Call(<<"require">>, <<StrLit("@/legacy")>>, 2)>>, 1))>>)
      [] tok = S_REQUIRE_DOUBLE ->
            VarDecl(<<Declarator("g", Call(<<"__importStar">>,
                <<Call(<<"__importDefault">>,
                    <<Call(<<"require">>, <<StrLit("@/legacy/foo")>>, 3)>>, 2)>>, 1))>>)
      [] tok = S_REQUIRE_MIXED ->
            VarDecl(<<Declarator("y", Call(<<"require">>, <<StrLit("y")>>, 1)),
                      Declarator("g", Call(<<"require">>, <<StrLit("@/legacy")>>, 2)),
                      Declarator("z", Call(<<"__importStar">>,
                          <<Call(<<"require">>, <<StrLit("z")>>, 4)>>, 3)),
                      Declarator("d", Call(<<"require">>, <<Ident("dyn")>>, 5))>>)
      [] tok = S_REQUIRE_ALL_LEGACY ->
            VarDecl(<<Declarator("g", Call(<<"require">>, <<StrLit("@/legacy")>>, 1)),
                      Declarator("h", Call(<<"__importStar">>,
                          <<Call(<<"require">>, <<StrLit("@/legacy/foo")>>, 3)>>, 2))>>)
      [] tok = S_REQUIRE_RT ->
            VarDecl(<<Declarator(CJS_RUNTIME_NAME,
                                 Call(<<"require">>, <<StrLit(RUNTIME_MODULE)>>, 1))>>)
      [] tok = S_SLICE ->
            GqlDef("sl", Arrow(Builder("query", "slice",
                          <<ObjectLit(<<>>), Ident("fields"), Ident("projection")>>)))
      [] tok = S_IN_FN ->
            VarDecl(<<Declarator("k", FnExpr("", Block(<<Return(
                Call(<<"gql", "default">>, <<Arrow(Builder("f", "K", Args3))>>, 1))>>)))>>)

KnownStatements ==
    {S_IMPORT_Y, S_IMPORT_LEGACY, S_IMPORT_LEGACY_FOO, S_IMPORT_LEGACY_OTHER,
     S_IMPORT_RT_OTHER, S_IMPORT_RT_HAS, S_OP, S_OP_NOARG, S_MODEL, S_MODEL_2ARGS,
     S_PAIR, S_DOLLAR, S_FN_CALLBACK, S_STALE, S_PLAIN, S_REQUIRE_LEGACY, S_REQUIRE_Y,
     S_ARROW_VAR, S_IN_ARROW, S_IN_FN, S_NESTED, S_OBJECT, S_CLASS, S_CLASS_EXPR,
     S_FN_DECL, S_EXPORTS, S_BLOCK_ONE, S_BLOCK_TWO, S_BLOCK_VOID_FIRST, S_BLOCK_NONCALL,
     S_BLOCK_NO_RETURN, S_REQUIRE_DEFAULT, S_REQUIRE_DOUBLE, S_REQUIRE_MIXED,
     S_REQUIRE_ALL_LEGACY, S_REQUIRE_RT, S_SLICE}

RawText(toks) == [kind |-> "raw", toks |-> toks, body |-> <<>>]

EmittedText(body) == [kind |-> "emitted", toks |-> <<>>, body |-> body]

RECURSIVE AtStatement(_, _)
\* the parser gives every node of statement i a span inside that statement
AtStatement(node, i) ==
    [node EXCEPT !.span = <<i, node.span[2]>>,
                 !.kids = [k \in 1..Len(node.kids) |-> AtStatement(node.kids[k], i)]]

\* Parser::parse_module: Err on a syntax error, else the module body
ParseModule(text) ==
    IF text.kind = "emitted"
    THEN [ok |-> TRUE, body |-> [i \in 1..Len(text.body) |-> AtStatement(text.body[i], i)]]
    ELSE IF \E i \in 1..Len(text.toks) : text.toks[i] \notin KnownStatements
    THEN [ok |-> FALSE, body |-> <<>>]
    ELSE [ok |-> TRUE,
          body |-> [i \in 1..Len(text.toks) |-> AtStatement(Statement(text.toks[i]), i)]]

(***************************************************************************)
(* MetadataCollector (metadata.rs).  The collector state is                 *)
(* [scope_stack, metadata, anonymous_counters]; metadata maps a call span   *)
(* to [ast_path, is_top_level].                                             *)
(***************************************************************************)
RECURSIVE is_gql_reference(_)
\* metadata.rs 315-328 / analysis.rs 168-183, on the member chain of an
\* expression: a one-element chain is an identifier, a longer one a member
\* expression whose property is the last element.
is_gql_reference(chain) ==
    IF Len(chain) = 0 THEN FALSE
    ELSE IF Len(chain) = 1 THEN chain[1] = "gql"
    ELSE \/ chain[Len(chain)] = "gql"
         \/ is_gql_reference(SubSeq(chain, 1, Len(chain) - 1))

\* the callee is a member expression whose object refers to gql
is_gql_member_expression(call) ==
    /\ Len(call.callee) >= 2
    /\ is_gql_reference(SubSeq(call.callee, 1, Len(call.callee) - 1))

\* ExprOrSpread.expr of an argument
ArgExpr(arg) == IF arg.t = "spread" THEN arg.kids[1] ELSE arg

is_gql_definition_call(call) ==
    /\ is_gql_member_expression(call)
    /\ Len(call.kids) > 0
    /\ ArgExpr(call.kids[1]).t = "arrow"

get_ast_path(st) == Join(st.scope_stack, ".")

\* returns <<name, state>>
get_anonymous_name(st, kind) ==
    LET count == GetOr(st.anonymous_counters, kind, 0)
        name == kind \o "#" \o ToString(count)
    IN  <<name,
          [st EXCEPT !.anonymous_counters = Put(@, kind, count + 1),
                     !.entered = Append(@, [kind |-> kind, name |-> name])]>>

\* returns <<path, state>>
register_definition(st) ==
    LET base_path == get_ast_path(st)
        count == GetOr(st.anonymous_counters, base_path, 0)
        path == IF count = 0 THEN base_path ELSE base_path \o "$" \o ToString(count)
    IN  <<path, [st EXCEPT !.anonymous_counters = Put(@, base_path, count + 1),
                           !.registered = Append(@, [scope |-> st.scope_stack,
                                                     base_path |-> base_path,
                                                     path |-> path])]>>

enter_scope(st, segment) == [st EXCEPT !.scope_stack = Append(@, segment)]

exit_scope(st) ==
    [st EXCEPT !.scope_stack = IF Len(@) = 0 THEN @ ELSE SubSeq(@, 1, Len(@) - 1)]

\* get_commonjs_export_name on the member chain of an assignment target
get_commonjs_export_name(chain) ==
    IF \/ (Len(chain) = 2 /\ chain[1] = "exports")
       \/ (Len(chain) = 3 /\ chain[1] = "module" /\ chain[2] = "exports")
    THEN chain[Len(chain)]
    ELSE ""

RECURSIVE CollectNode(_, _), CollectKids(_, _, _), CollectNodeDescending(_, _)
CollectKids(kids, i, st) ==
    IF i > Len(kids) THEN st
    ELSE LET next == CollectNode(kids[i], st)
         IN  IF Evaluated(next) THEN CollectKids(kids, i + 1, next) ELSE next

Scoped(node, st, segment) ==
    exit_scope(CollectKids(node.kids, 1, enter_scope(st, segment)))

\* a visitor that goes on into the children of a call it has registered
CollectNodeDescending(node, st) ==
    CASE node.t = "decl" ->
            IF node.name # "" THEN Scoped(node, st, node.name)
            ELSE CollectKids(node.kids, 1, st)
      [] node.t \in {"fndecl", "classdecl"} -> Scoped(node, st, node.name)
      [] node.t = "fn" ->
            IF node.name # "" THEN Scoped(node, st, node.name)
            ELSE LET an == get_anonymous_name(st, "function")
                 IN  Scoped(node, an[2], an[1])
      [] node.t = "arrow" ->
            LET an == get_anonymous_name(st, "arrow") IN Scoped(node, an[2], an[1])
      [] node.t \in {"method", "prop"} ->
            IF node.name # "" THEN Scoped(node, st, node.name)
            ELSE CollectKids(node.kids, 1, st)
      [] node.t = "assign" ->
            IF get_commonjs_export_name(node.callee) # ""
            THEN Scoped(node, st, get_commonjs_export_name(node.callee))
            ELSE CollectKids(node.kids, 1, st)
      [] node.t = "call" ->
            IF is_gql_definition_call(node)
            THEN LET reg == register_definition(st)
                 IN  CollectKids(node.kids, 1,
                        [reg[2] EXCEPT !.metadata =
                            Put(@, node.span, [ast_path |-> reg[1],
                                               is_top_level |-> Len(st.scope_stack) <= 1])])
            ELSE CollectKids(node.kids, 1, st)
      [] OTHER -> CollectKids(node.kids, 1, st)

\* impl Visit for MetadataCollector
CollectNode(node, st) ==
    CASE node.t = "decl" ->
            IF node.name # "" THEN Scoped(node, st, node.name)
            ELSE CollectKids(node.kids, 1, st)
      [] node.t \in {"fndecl", "classdecl"} -> Scoped(node, st, node.name)
      [] node.t = "fn" ->
            IF node.name # "" THEN Scoped(node, st, node.name)
            ELSE LET an == get_anonymous_name(st, "function")
                 IN  Scoped(node, an[2], an[1])
      [] node.t = "arrow" ->
            LET an == get_anonymous_name(st, "arrow") IN Scoped(node, an[2], an[1])
      [] node.t \in {"method", "prop"} ->
            IF node.name # "" THEN Scoped(node, st, node.name)
            ELSE CollectKids(node.kids, 1, st)
      [] node.t = "assign" ->
            IF get_commonjs_export_name(node.callee) # ""
            THEN Scoped(node, st, get_commonjs_export_name(node.callee))
            ELSE CollectKids(node.kids, 1, st)
      [] node.t = "call" ->
            IF is_gql_definition_call(node)
            THEN LET reg == register_definition(st)
                 IN  [reg[2] EXCEPT !.metadata =
                        Put(@, node.span, [ast_path |-> reg[1],
                                           is_top_level |-> Len(st.scope_stack) <= 1])]
            ELSE CollectKids(node.kids, 1, st)
      [] OTHER -> CollectKids(node.kids, 1, st)

\* a collector that starts from the counters an earlier run left behind
NewCollectorKeepingCounters ==
    [scope_stack |-> <<>>, metadata |-> EmptyMap,
     anonymous_counters |-> collector.anonymous_counters,
     entered |-> <<>>, registered |-> <<>>]

\* entered and registered are the trace of the collector's calls: the names
\* get_anonymous_name handed out and the paths register_definition handed out
NewCollector ==
    [scope_stack |-> <<>>, metadata |-> EmptyMap, anonymous_counters |-> EmptyMap,
     entered |-> <<>>, registered |-> <<>>]

\* MetadataCollector::collect: the final collector state (its metadata map is
\* what the caller keeps)
collect(body) == CollectKids(body, 1, NewCollector)

(***************************************************************************)
(* Option<T>: None is <<>>, Some(x) is <<x>>                                *)
(***************************************************************************)
None == <<>>

Some(x) == <<x>>

IsSome(o) == Len(o) = 1

(***************************************************************************)
(* Diagnostics (error.rs)                                                   *)
(***************************************************************************)
metadata_not_found(filename) ==
    [code |-> "SODA_GQL_METADATA_NOT_FOUND", stage |-> "Analysis",
     filename |-> Some(filename), canonical_id |-> None,
     builder_type |-> None, arg_name |-> None]

\* a diagnostic that names the file only
artifact_not_found_without_id(filename, canonical_id) ==
    [code |-> "SODA_GQL_ANALYSIS_ARTIFACT_NOT_FOUND", stage |-> "Analysis",
     filename |-> Some(filename), canonical_id |-> None,
     builder_type |-> None, arg_name |-> None]

artifact_not_found(filename, canonical_id) ==
    [code |-> "SODA_GQL_ANALYSIS_ARTIFACT_NOT_FOUND", stage |-> "Analysis",
     filename |-> Some(filename), canonical_id |-> Some(canonical_id),
     builder_type |-> None, arg_name |-> None]

missing_builder_arg(filename, builder_type, arg_name) ==
    [code |-> "SODA_GQL_TRANSFORM_MISSING_BUILDER_ARG", stage |-> "Transform",
     filename |-> Some(filename), canonical_id |-> None,
     builder_type |-> Some(builder_type), arg_name |-> Some(arg_name)]

(***************************************************************************)
(* The artifact table.  Its serialized form is a sequence of entries        *)
(* [id, type, name]; deserializing gives a map from CanonicalId to          *)
(* [type, prebuild], and fails on an entry of an unknown type.              *)
(***************************************************************************)
ArtifactTypes == {"model", "slice", "operation", "inlineOperation"}

Element(e) ==
    [type |-> e.type,
     prebuild |-> CASE e.type = "model" -> [typename |-> e.name]
                    [] e.type = "slice" -> [operation_type |-> e.name]
                    [] OTHER -> [operation_name |-> e.name]]

RECURSIVE TableFrom(_, _)
TableFrom(entries, i) ==
    IF i > Len(entries) THEN EmptyMap
    ELSE Put(TableFrom(entries, i + 1), entries[i].id, Element(entries[i]))

\* a deserializer that lets unknown element kinds through
ParseArtifactLenient(json) == [ok |-> TRUE, table |-> TableFrom(json, 1)]

\* serde_json::from_str::<BuilderArtifact>
ParseArtifact(json) ==
    IF \E i \in 1..Len(json) : json[i].type \notin ArtifactTypes
    THEN [ok |-> FALSE, table |-> EmptyMap]
    ELSE [ok |-> TRUE, table |-> TableFrom(json, 1)]

(***************************************************************************)
(* GqlCallFinder (analysis.rs).  The finder state is                        *)
(* [replacements, has_transforms, errors]; replacements maps a call span to *)
(* [canonical_id, artifact, builder_args].                                  *)
(***************************************************************************)
\* the id built from the path as given
resolve_canonical_id_as_given(file_path, ast_path) == file_path \o "::" \o ast_path

resolve_canonical_id(file_path, ast_path) ==
    LET normalized_path == ReplaceBackslash(file_path)
    IN  normalized_path \o "::" \o ast_path

RECURSIVE extract_call_from_block_at(_, _)
extract_call_from_block_at(stmts, i) ==
    IF i > Len(stmts) THEN None
    ELSE IF /\ stmts[i].t = "return"
            /\ Len(stmts[i].kids) = 1
            /\ stmts[i].kids[1].t = "call"
         THEN Some(stmts[i].kids[1])
         ELSE extract_call_from_block_at(stmts, i + 1)

extract_call_from_block(block) == extract_call_from_block_at(block.kids, 1)

extract_builder_call_from_arrow(arrow) ==
    LET body == arrow.kids[1]
    IN  IF body.t = "block" THEN extract_call_from_block(body)
        ELSE IF body.t = "call" THEN Some(body) ELSE None

extract_builder_call_from_fn(fn_expr) ==
    IF Len(fn_expr.kids) = 0 THEN None ELSE extract_call_from_block(fn_expr.kids[1])

find_gql_builder_call(call) ==
    IF ~is_gql_member_expression(call) THEN None
    ELSE IF Len(call.kids) # 1 THEN None
    ELSE IF call.kids[1].t = "spread" THEN None
    ELSE CASE call.kids[1].t = "arrow" -> extract_builder_call_from_arrow(call.kids[1])
           [] call.kids[1].t = "fn" -> extract_builder_call_from_fn(call.kids[1])
           [] OTHER -> None

\* an analysis that counts a call site without artifact as a transform
process_call_flagging_stale(call, table, meta, source_path, st) ==
    LET builder_call == find_gql_builder_call(call)
    IN  IF ~IsSome(builder_call) THEN st
        ELSE IF call.span \notin DOMAIN meta
        THEN [st EXCEPT !.errors = Append(@, metadata_not_found(source_path))]
        ELSE LET canonical_id == resolve_canonical_id(source_path, meta[call.span].ast_path)
             IN  IF canonical_id \in DOMAIN table
                 THEN [st EXCEPT
                         !.replacements = Put(@, call.span,
                             [canonical_id |-> canonical_id,
                              artifact |-> table[canonical_id],
                              builder_args |-> builder_call[1].kids]),
                         !.has_transforms = TRUE]
                 ELSE [st EXCEPT !.errors =
                         Append(@, artifact_not_found(source_path, canonical_id)),
                                 !.has_transforms = TRUE]

process_call(call, table, meta, source_path, st) ==
    LET builder_call == find_gql_builder_call(call)
    IN  IF ~IsSome(builder_call) THEN st
        ELSE IF call.span \notin DOMAIN meta
        THEN [st EXCEPT !.errors = Append(@, metadata_not_found(source_path))]
        ELSE LET canonical_id == resolve_canonical_id(source_path, meta[call.span].ast_path)
             IN  IF canonical_id \in DOMAIN table
                 THEN [st EXCEPT
                         !.replacements = Put(@, call.span,
                             [canonical_id |-> canonical_id,
                              artifact |-> table[canonical_id],
                              builder_args |-> builder_call[1].kids]),
                         !.has_transforms = TRUE]
                 ELSE [st EXCEPT !.errors =
                         Append(@, artifact_not_found(source_path, canonical_id))]

RECURSIVE FindNode(_, _, _, _, _), FindKids(_, _, _, _, _, _),
          FindKidsUntilError(_, _, _, _, _, _)
\* a traversal that gives up at the first diagnostic
FindKidsUntilError(kids, i, table, meta, source_path, st) ==
    IF i > Len(kids) \/ Len(st.errors) > 0 THEN st
    ELSE LET next == FindNode(kids[i], table, meta, source_path, st)
         IN  IF Evaluated(next)
             THEN FindKidsUntilError(kids, i + 1, table, meta, source_path, next)
             ELSE next

FindKids(kids, i, table, meta, source_path, st) ==
    IF i > Len(kids) THEN st
    ELSE LET next == FindNode(kids[i], table, meta, source_path, st)
         IN  IF Evaluated(next) THEN FindKids(kids, i + 1, table, meta, source_path, next)
             ELSE next

\* impl Visit for GqlCallFinder: the call itself first, then its children
FindNode(node, table, meta, source_path, st) ==
    LET own == IF node.t = "call" THEN process_call(node, table, meta, source_path, st)
               ELSE st
    IN  IF Evaluated(own) THEN FindKids(node.kids, 1, table, meta, source_path, own)
        ELSE own

\* a finder whose "has any transform" flag starts out set
NewFinderFlagSet == [replacements |-> EmptyMap, has_transforms |-> TRUE, errors |-> <<>>]

NewFinder == [replacements |-> EmptyMap, has_transforms |-> FALSE, errors |-> <<>>]

\* GqlCallFinder::new followed by module.visit_with(&mut finder)
find(body, table, meta, source_path) ==
    FindKids(body, 1, table, meta, source_path, NewFinder)

(***************************************************************************)
(* RuntimeCallBuilder (runtime.rs)                                          *)
(***************************************************************************)
create_runtime_accessor(is_cjs) ==
    IF is_cjs THEN <<CJS_RUNTIME_NAME, RUNTIME_IMPORT_NAME>> ELSE <<RUNTIME_IMPORT_NAME>>

create_runtime_call(is_cjs, method, args) ==
    Call(create_runtime_accessor(is_cjs) \o <<method>>, args, 0)

create_object_lit(props) == ObjectLit([i \in 1..Len(props) |-> KeyValue(props[i][1], props[i][2])])

create_string_lit(value) == StrLit(value)

create_json_parse(json) == Call(<<"JSON", "parse">>, <<create_string_lit(json)>>, 0)

\* serde_json::to_string of an operation prebuild
to_string(prebuild) == "{\"operationName\":\"" \o prebuild.operation_name \o "\"}"

\* get(i) read as a 1-based index
ArgAtOneBased(builder_args, i) ==
    IF i >= 1 /\ i <= Len(builder_args) THEN Some(builder_args[i]) ELSE None

\* builder_args.get(i) with a 0-based index
ArgAt(builder_args, i) == IF i + 1 <= Len(builder_args) THEN Some(builder_args[i + 1]) ELSE None

build_model_call(is_cjs, prebuild, builder_args) ==
    LET normalize == ArgAt(builder_args, 2)
    IN  IF ~IsSome(normalize) THEN None
        ELSE Some(create_runtime_call(is_cjs, "model", <<create_object_lit(<<
                <<"prebuild", create_object_lit(<<
                    <<"typename", create_string_lit(prebuild.typename)>> >>)>>,
                <<"runtime", create_object_lit(<<
                    <<"normalize", ArgExpr(normalize[1])>> >>)>> >>)>>))

build_slice_call(is_cjs, prebuild, builder_args) ==
    LET projection_builder == ArgAt(builder_args, 2)
    IN  IF ~IsSome(projection_builder) THEN None
        ELSE Some(create_runtime_call(is_cjs, "slice", <<create_object_lit(<<
                <<"prebuild", create_object_lit(<<
                    <<"operationType", create_string_lit(prebuild.operation_type)>> >>)>>,
                <<"runtime", create_object_lit(<<
                    <<"buildProjection", ArgExpr(projection_builder[1])>> >>)>> >>)>>))

\* returns Option<<<reference expression, Option<statement>>>>
build_composed_operation_calls(is_cjs, prebuild, builder_args) ==
    LET slices_builder == ArgAt(builder_args, 1)
    IN  IF ~IsSome(slices_builder) THEN None
        ELSE Some(<<
            create_runtime_call(is_cjs, "getComposedOperation",
                                <<create_string_lit(prebuild.operation_name)>>),
            Some(ExprStmt(create_runtime_call(is_cjs, "composedOperation",
                <<create_object_lit(<<
                    <<"prebuild", create_json_parse(to_string(prebuild))>>,
                    <<"runtime", create_object_lit(<<
                        <<"getSlices", ArgExpr(slices_builder[1])>> >>)>> >>)>>)))>>)

\* an inline operation that is looked up but never registered
build_inline_operation_calls_no_statement(is_cjs, prebuild) ==
    Some(<<
        create_runtime_call(is_cjs, "getInlineOperation",
                            <<create_string_lit(prebuild.operation_name)>>),
        None>>)

build_inline_operation_calls(is_cjs, prebuild) ==
    Some(<<
        create_runtime_call(is_cjs, "getInlineOperation",
                            <<create_string_lit(prebuild.operation_name)>>),
        Some(ExprStmt(create_runtime_call(is_cjs, "inlineOperation",
            <<create_object_lit(<<
                <<"prebuild", create_json_parse(to_string(prebuild))>>,
                <<"runtime", create_object_lit(<<>>)>> >>)>>)))>>)

ExprOnly(e) == IF IsSome(e) THEN Some(<<e[1], None>>) ELSE None

build_replacement(is_cjs, replacement) ==
    LET a == replacement.artifact
    IN  CASE a.type = "model" ->
                ExprOnly(build_model_call(is_cjs, a.prebuild, replacement.builder_args))
          [] a.type = "slice" ->
                ExprOnly(build_slice_call(is_cjs, a.prebuild, replacement.builder_args))
          [] a.type = "operation" ->
                build_composed_operation_calls(is_cjs, a.prebuild, replacement.builder_args)
          [] a.type = "inlineOperation" ->
                build_inline_operation_calls(is_cjs, a.prebuild)

(***************************************************************************)
(* GqlTransformer (transformer.rs 257-327).  The transformer state is       *)
(* [needs_runtime, runtime_calls, errors].                                  *)
(***************************************************************************)
NewTransformer == [needs_runtime |-> FALSE, runtime_calls |-> <<>>, errors |-> <<>>]

\* the arms of transformer.rs 312-315
artifact_type(a) ==
    CASE a.type = "model" -> "model"
      [] a.type = "operation" -> "operation"

\* a rewriter that asks for the runtime import only once a replacement was built
rewrite_call_flag_on_success(expr, fnd, is_cjs, source_path, st) ==
    IF expr.t = "call" /\ expr.span \in DOMAIN fnd.replacements
    THEN LET replacement == fnd.replacements[expr.span]
             built == build_replacement(is_cjs, replacement)
         IN  IF IsSome(built)
             THEN <<built[1][1],
                    [st EXCEPT !.needs_runtime = TRUE,
                               !.runtime_calls = IF IsSome(built[1][2])
                                                 THEN Append(@, built[1][2][1]) ELSE @]>>
             ELSE <<expr,
                    [st EXCEPT !.errors = Append(@,
                        missing_builder_arg(source_path, artifact_type(replacement.artifact),
                                            "builder callback"))]>>
    ELSE <<expr, st>>

\* the body of visit_mut_expr after the children were visited;
\* returns <<expression, state>>
rewrite_call(expr, fnd, is_cjs, source_path, st) ==
    IF expr.t = "call" /\ expr.span \in DOMAIN fnd.replacements
    THEN LET replacement == fnd.replacements[expr.span]
             st1 == [st EXCEPT !.needs_runtime = TRUE]
             built == build_replacement(is_cjs, replacement)
         IN  IF IsSome(built)
             THEN <<built[1][1],
                    IF IsSome(built[1][2])
                    THEN [st1 EXCEPT !.runtime_calls = Append(@, built[1][2][1])]
                    ELSE st1>>
             ELSE <<expr,
                    [st1 EXCEPT !.errors = Append(@,
                        missing_builder_arg(source_path, artifact_type(replacement.artifact),
                                            "builder callback"))]>>
    ELSE <<expr, st>>

RECURSIVE RewriteNode(_, _, _, _, _), RewriteKids(_, _, _, _, _, _, _)
\* returns <<children, state>>
RewriteKids(kids, i, done, fnd, is_cjs, source_path, st) ==
    IF i > Len(kids) THEN <<done, st>>
    ELSE LET r == RewriteNode(kids[i], fnd, is_cjs, source_path, st)
             sofar == Append(done, r[1])
         IN  IF Evaluated(sofar)
             THEN RewriteKids(kids, i + 1, sofar, fnd, is_cjs, source_path, r[2])
             ELSE r

\* impl VisitMut for GqlTransformer: children first, then the node
RewriteNode(node, fnd, is_cjs, source_path, st) ==
    LET r == RewriteKids(node.kids, 1, <<>>, fnd, is_cjs, source_path, st)
    IN  IF Evaluated(r)
        THEN rewrite_call([node EXCEPT !.kids = r[1]], fnd, is_cjs, source_path, r[2])
        ELSE r

\* module.visit_mut_with(&mut transformer); returns <<body, state>>
rewrite(body, fnd, is_cjs, source_path) ==
    RewriteKids(body, 1, <<>>, fnd, is_cjs, source_path, NewTransformer)

(***************************************************************************)
(* ImportManager (imports.rs)                                               *)
(***************************************************************************)
\* a prefix test without the `/` boundary
is_graphql_system_import_any_prefix(aliases, specifier) ==
    \E i \in 1..Len(aliases) : StartsWith(specifier, aliases[i])

is_graphql_system_import(aliases, specifier) ==
    \E i \in 1..Len(aliases) :
        specifier = aliases[i] \/ StartsWith(specifier, aliases[i] \o "/")

create_esm_import == ImportDecl(RUNTIME_MODULE, <<Named(RUNTIME_IMPORT_NAME)>>)

create_cjs_require ==
    VarDecl(<<Declarator(CJS_RUNTIME_NAME,
                         Call(<<"require">>, <<StrLit(RUNTIME_MODULE)>>, 0))>>)

\* a specifier extraction that looks through at most one interop helper
extract_require_specifier_one_layer(expr) ==
    LET direct(e) ==
            /\ e.t = "call" /\ e.callee = <<"require">>
            /\ Len(e.kids) > 0
            /\ ArgExpr(e.kids[1]).t = "str"
    IN  IF direct(expr) THEN Some(ArgExpr(expr.kids[1]).name)
        ELSE IF /\ expr.t = "call"
                /\ expr.callee \in {<<"__importDefault">>, <<"__importStar">>}
                /\ Len(expr.kids) > 0
                /\ direct(ArgExpr(expr.kids[1]))
        THEN Some(ArgExpr(ArgExpr(expr.kids[1]).kids[1]).name)
        ELSE None

RECURSIVE extract_require_specifier(_)
extract_require_specifier(expr) ==
    IF expr.t = "call" /\ Len(expr.callee) = 1
    THEN IF /\ expr.callee[1] = "require"
            /\ Len(expr.kids) > 0
            /\ ArgExpr(expr.kids[1]).t = "str"
         THEN Some(ArgExpr(expr.kids[1]).name)
         ELSE IF /\ expr.callee[1] \in {"__importDefault", "__importStar"}
                 /\ Len(expr.kids) > 0
              THEN extract_require_specifier(ArgExpr(expr.kids[1]))
              ELSE None
    ELSE None

is_graphql_system_require(aliases, decl) ==
    /\ Len(decl.kids) = 1
    /\ IsSome(extract_require_specifier(decl.kids[1]))
    /\ is_graphql_system_import(aliases, extract_require_specifier(decl.kids[1])[1])

has_runtime_import(import) ==
    /\ import.name = RUNTIME_MODULE
    /\ \E i \in 1..Len(import.kids) :
          import.kids[i].t = "named" /\ import.kids[i].name = RUNTIME_IMPORT_NAME

RECURSIVE FilterAllRequires(_, _, _)
\* a filter that drops every require declarator, whatever its specifier
FilterAllRequires(decls, i, aliases) ==
    IF i > Len(decls) THEN <<>>
    ELSE (IF Len(decls[i].kids) = 1 /\ IsSome(extract_require_specifier(decls[i].kids[1]))
          THEN <<>> ELSE <<decls[i]>>)
         \o FilterAllRequires(decls, i + 1, aliases)

RECURSIVE Filter(_, _, _)
Filter(decls, i, aliases) ==
    IF i > Len(decls) THEN <<>>
    ELSE (IF is_graphql_system_require(aliases, decls[i]) THEN <<>> ELSE <<decls[i]>>)
         \o Filter(decls, i + 1, aliases)

\* one iteration of the loop of imports.rs 136-200 over the loop state
\* [new_body, import_insert_pos, found_non_import, existing_runtime_import_idx]
manage_item(item, aliases, ls) ==
    CASE item.t = "import" ->
            IF is_graphql_system_import(aliases, item.name) THEN ls
            ELSE [ls EXCEPT
                    !.existing_runtime_import_idx =
                        IF item.name = RUNTIME_MODULE THEN Some(Len(ls.new_body)) ELSE @,
                    !.import_insert_pos = Len(ls.new_body) + 1,
                    !.new_body = Append(@, item)]
      [] item.t = "var" ->
            LET filtered_decls == Filter(item.kids, 1, aliases)
            IN  IF Len(filtered_decls) = 0 THEN ls
                ELSE LET pushed == Append(ls.new_body,
                                     IF Len(filtered_decls) < Len(item.kids)
                                     THEN [item EXCEPT !.kids = filtered_decls]
                                     ELSE item)
                     IN  [ls EXCEPT
                            !.new_body = pushed,
                            !.import_insert_pos =
                                IF ~ls.found_non_import THEN Len(pushed) ELSE @,
                            !.found_non_import = TRUE]
      [] OTHER ->
            [ls EXCEPT
                !.import_insert_pos = IF ~ls.found_non_import THEN Len(ls.new_body) ELSE @,
                !.found_non_import = TRUE,
                !.new_body = Append(@, item)]

RECURSIVE manage_loop(_, _, _, _)
manage_loop(body, i, aliases, ls) ==
    IF i > Len(body) THEN ls
    ELSE manage_loop(body, i + 1, aliases, manage_item(body[i], aliases, ls))

\* Vec::insert at a 0-based position
InsertAt(seq, pos, x) == SubSeq(seq, 1, pos) \o <<x>> \o SubSeq(seq, pos + 1, Len(seq))

\* always a fresh runtime import, never a merge
add_runtime_import_fresh(ls, is_cjs) ==
    InsertAt(ls.new_body, ls.import_insert_pos,
             IF is_cjs THEN create_cjs_require ELSE create_esm_import)

\* imports.rs 202-237 on the finished loop state
add_runtime_import(ls, is_cjs) ==
    LET idx == ls.existing_runtime_import_idx
        already_has_import ==
            /\ IsSome(idx)
            /\ ls.new_body[idx[1] + 1].t = "import"
            /\ has_runtime_import(ls.new_body[idx[1] + 1])
    IN  IF already_has_import THEN ls.new_body
        ELSE IF IsSome(idx)
        THEN [ls.new_body EXCEPT ![idx[1] + 1].kids = Append(@, Named(RUNTIME_IMPORT_NAME))]
        ELSE InsertAt(ls.new_body, ls.import_insert_pos,
                      IF is_cjs THEN create_cjs_require ELSE create_esm_import)

\* ImportManager::visit_mut_module
visit_mut_module(body, needs_runtime_import, is_cjs, aliases) ==
    LET ls == manage_loop(body, 1, aliases,
                [new_body |-> <<>>, import_insert_pos |-> 0,
                 found_non_import |-> FALSE, existing_runtime_import_idx |-> None])
    IN  IF needs_runtime_import THEN add_runtime_import(ls, is_cjs) ELSE ls.new_body

(***************************************************************************)
(* insert_runtime_calls (transformer.rs 329-346)                            *)
(***************************************************************************)
RECURSIVE FirstImportEnd(_, _, _)
\* a loop that stops at the first import declaration
FirstImportEnd(body, i, insert_pos) ==
    IF i > Len(body) THEN insert_pos
    ELSE IF body[i].t = "import" THEN i
    ELSE FirstImportEnd(body, i + 1, insert_pos)

RECURSIVE LastImportEnd(_, _, _)
\* the loop of lines 336-341: insert_pos after the last import declaration
LastImportEnd(body, i, insert_pos) ==
    IF i > Len(body) THEN insert_pos
    ELSE LastImportEnd(body, i + 1, IF body[i].t = "import" THEN i ELSE insert_pos)

insert_runtime_calls(body, calls) ==
    IF Len(calls) = 0 THEN body
    ELSE LET insert_pos == LastImportEnd(body, 1, 0)
         IN  SubSeq(body, 1, insert_pos) \o calls \o SubSeq(body, insert_pos + 1, Len(body))

(***************************************************************************)
(* Results (transformer.rs 30-48) and the stub check (426-438)              *)
(***************************************************************************)
\* the comparison without the separator normalization
is_graphql_system_file_raw(source_path, graphql_system_path) ==
    IF IsSome(graphql_system_path) THEN source_path = graphql_system_path[1] ELSE FALSE

is_graphql_system_file(source_path, graphql_system_path) ==
    IF IsSome(graphql_system_path)
    THEN ReplaceBackslash(source_path) = ReplaceBackslash(graphql_system_path[1])
    ELSE FALSE

Ok(output_code, transformed, errors, source_map) ==
    [status |-> "ok", output_code |-> output_code, transformed |-> transformed,
     errors |-> errors, source_map |-> source_map, message |-> ""]

Err(message) ==
    [status |-> "err", output_code |-> RawText(<<>>), transformed |-> FALSE,
     errors |-> <<>>, source_map |-> None, message |-> message]

NoResult ==
    [status |-> "none", output_code |-> RawText(<<>>), transformed |-> FALSE,
     errors |-> <<>>, source_map |-> None, message |-> ""]

STUB == RawText(<<"export {};">>)

\* emit_module: the printed module, and the source map when one is asked for
emit_module(body, generate_source_map) ==
    [code |-> EmittedText(body),
     source_map |-> IF generate_source_map THEN Some("map") ELSE None]

(***************************************************************************)
(* Inputs of a transform call: [source_code, source_path, artifact_json,    *)
(* config], config being [graphql_system_aliases, is_cjs,                   *)
(* graphql_system_path, source_map].                                        *)
(***************************************************************************)
SeqsUpTo(S, n) == UNION {[1..k -> S] : k \in 0..n}

Config(aliases, is_cjs, system_path, source_map) ==
    [graphql_system_aliases |-> aliases, is_cjs |-> is_cjs,
     graphql_system_path |-> system_path, source_map |-> source_map]

Entry(id, type, name) == [id |-> id, type |-> type, name |-> name]

ArtifactJson ==
    <<Entry("/p/a.ts::a", "operation", "GetUser"),
      Entry("/p/a.ts::b", "operation", "GetB"),
      Entry("/p/a.ts::m", "model", "User"),
      Entry("/p/a.ts::n", "model", "Post"),
      Entry("/p/a.ts::a$1", "inlineOperation", "Inline"),
      Entry("/p/a.ts::q", "operation", "GetQ"),
      Entry("/p/a.ts::sl", "slice", "query")>>

MalformedArtifactJson == <<Entry("/p/a.ts::a", "bogus", "GetUser")>>

\* a config payload that does not deserialize into a TransformConfig
MalformedConfig ==
    [graphql_system_aliases |-> <<>>, is_cjs |-> FALSE, graphql_system_path |-> None,
     source_map |-> FALSE, malformed |-> TRUE]

\* serde_json::from_str::<TransformConfig> succeeds
ParsesAsConfig(config) == "malformed" \notin DOMAIN config

\* call sites that resolve, fail to resolve or fail to synthesize, among imports
PipelineInputs ==
    {[source_code |-> RawText(toks), source_path |-> "/p/a.ts",
      artifact_json |-> ArtifactJson,
      config |-> Config(<<"@/legacy">>, cjs, None, FALSE)] :
        toks \in SeqsUpTo({S_IMPORT_Y, S_OP, S_MODEL, S_MODEL_2ARGS, S_STALE, S_PLAIN},
                         MaxItems),
        cjs \in BOOLEAN}

\* import headers under different alias lists
ImportInputs ==
    {[source_code |-> RawText(toks), source_path |-> "/p/a.ts",
      artifact_json |-> ArtifactJson,
      config |-> Config(aliases, FALSE, None, FALSE)] :
        toks \in SeqsUpTo({S_IMPORT_LEGACY_FOO, S_IMPORT_LEGACY_OTHER, S_IMPORT_RT_OTHER,
                           S_IMPORT_RT_HAS, S_OP}, MaxItems),
        aliases \in {<<"@/legacy">>, <<>>}}

\* several definitions under equal and look-alike scope names
ScopeInputs ==
    {[source_code |-> RawText(toks), source_path |-> "/p/a.ts",
      artifact_json |-> ArtifactJson,
      config |-> Config(<<"@/legacy">>, FALSE, None, FALSE)] :
        toks \in SeqsUpTo({S_PAIR, S_DOLLAR, S_OP, S_OP_NOARG, S_FN_CALLBACK}, MaxItems)}

\* paths in both separator styles against a configured system file
PathInputs ==
    {[source_code |-> RawText(toks), source_path |-> path,
      artifact_json |-> json,
      config |-> Config(<<"@/legacy">>, FALSE, sys, map)] :
        toks \in {<<>>, <<S_OP>>, <<S_PLAIN>>, <<S_SYNTAX_ERROR>>, <<S_OP, S_PLAIN>>,
                  <<S_OP, S_SYNTAX_ERROR>>},
        path \in {"/p/a.ts", "\\p\\a.ts", "/p/sys.ts", "\\p/sys.ts"},
        json \in {ArtifactJson, MalformedArtifactJson},
        sys \in {None, Some("/p/sys.ts"), Some("\\p\\sys.ts")},
        map \in BOOLEAN}

\* headers of imports and requires in both module formats
FormatInputs ==
    {[source_code |-> RawText(toks), source_path |-> "/p/a.ts",
      artifact_json |-> ArtifactJson,
      config |-> Config(<<"@/legacy">>, cjs, None, FALSE)] :
        toks \in {<<S_IMPORT_LEGACY_FOO, S_PLAIN>>, <<S_IMPORT_RT_OTHER, S_OP>>,
                  <<S_IMPORT_RT_HAS, S_OP>>, <<S_REQUIRE_LEGACY, S_OP>>,
                  <<S_REQUIRE_Y, S_REQUIRE_LEGACY, S_OP>>, <<S_REQUIRE_Y, S_REQUIRE_Y, S_OP>>,
                  <<S_PLAIN, S_REQUIRE_Y, S_OP>>, <<S_REQUIRE_Y, S_MODEL>>,
                  <<S_IMPORT_LEGACY, S_STALE>>, <<S_IMPORT_LEGACY, S_FN_CALLBACK>>,
                  <<S_IMPORT_LEGACY, S_STALE, S_FN_CALLBACK>>,
                  <<S_REQUIRE_LEGACY, S_STALE>>, <<S_REQUIRE_RT, S_OP>>,
                  <<S_IMPORT_LEGACY, S_OP>>, <<S_IMPORT_LEGACY, S_IMPORT_LEGACY_FOO, S_OP>>},
        cjs \in BOOLEAN}

\* definitions inside anonymous functions and under a variable named like a counter key
CounterInputs ==
    {[source_code |-> RawText(toks), source_path |-> "/p/a.ts",
      artifact_json |-> ArtifactJson,
      config |-> Config(<<"@/legacy">>, FALSE, None, FALSE)] :
        toks \in SeqsUpTo({S_ARROW_VAR, S_IN_ARROW, S_IN_FN, S_OP}, 2)}

\* definitions inside other definitions, object literals, classes, functions and exports
NestingInputs ==
    {[source_code |-> RawText(toks), source_path |-> "/p/a.ts",
      artifact_json |-> ArtifactJson,
      config |-> Config(<<"@/legacy">>, FALSE, None, FALSE)] :
        toks \in SeqsUpTo({S_NESTED, S_OBJECT, S_CLASS, S_CLASS_EXPR, S_FN_DECL, S_EXPORTS,
                           S_IN_ARROW}, 2)}

\* input payloads whose config does not deserialize
PayloadInputs ==
    {[source_code |-> RawText(toks), source_path |-> "/p/a.ts",
      artifact_json |-> json,
      config |-> MalformedConfig] :
        toks \in {<<S_OP>>, <<S_PLAIN>>, <<S_SYNTAX_ERROR>>},
        json \in {ArtifactJson, MalformedArtifactJson}}

\* callbacks with a block body
BlockInputs ==
    {[source_code |-> RawText(toks), source_path |-> "/p/a.ts",
      artifact_json |-> ArtifactJson,
      config |-> Config(<<"@/legacy">>, FALSE, None, FALSE)] :
        toks \in {<<S_BLOCK_ONE>>, <<S_BLOCK_TWO>>, <<S_BLOCK_VOID_FIRST>>, <<S_BLOCK_NONCALL>>,
                  <<S_BLOCK_NO_RETURN>>, <<S_BLOCK_NONCALL, S_BLOCK_NO_RETURN>>,
                  <<S_BLOCK_NO_RETURN, S_FN_CALLBACK>>}}

\* CommonJS modules with wrapped requires and declarations of several declarators
RequireInputs ==
    {[source_code |-> RawText(toks), source_path |-> "/p/a.ts",
      artifact_json |-> ArtifactJson,
      config |-> Config(<<"@/legacy">>, TRUE, None, FALSE)] :
        toks \in {<<S_REQUIRE_DEFAULT, S_OP>>, <<S_REQUIRE_DOUBLE, S_OP>>,
                  <<S_REQUIRE_MIXED, S_OP>>, <<S_REQUIRE_ALL_LEGACY, S_OP>>,
                  <<S_REQUIRE_DOUBLE, S_REQUIRE_MIXED, S_REQUIRE_DEFAULT, S_OP>>}}

\* one call site of every artifact kind
KindInputs ==
    {[source_code |-> RawText(toks), source_path |-> "/p/a.ts",
      artifact_json |-> ArtifactJson,
      config |-> Config(<<"@/legacy">>, cjs, None, FALSE)] :
        toks \in {<<S_SLICE>>, <<S_OP, S_DOLLAR, S_MODEL, S_SLICE>>,
                  <<S_SLICE, S_OP_NOARG, S_DOLLAR>>, <<S_IMPORT_Y, S_OBJECT, S_DOLLAR, S_OP>>},
        cjs \in BOOLEAN}

Inputs ==
    PipelineInputs \cup ImportInputs \cup ScopeInputs \cup PathInputs \cup FormatInputs
        \cup CounterInputs \cup PayloadInputs \cup NestingInputs \cup BlockInputs
        \cup RequireInputs \cup KindInputs

NoHistory == [parsed |-> <<>>, rewritten |-> <<>>, managed |-> <<>>]

NoCollector ==
    [scope_stack |-> <<>>, metadata |-> EmptyMap, anonymous_counters |-> EmptyMap,
     entered |-> <<>>, registered |-> <<>>]

\* no SwcTransformer has been constructed
NoInstance == [status |-> "none", artifact |-> EmptyMap, config |-> Config(<<>>, FALSE, None, FALSE)]

\* no transform call has been made on the instance
NoCall == [source_code |-> RawText(<<>>), source_path |-> "", result |-> NoResult,
           after_other |-> FALSE]

Init ==
    /\ input \in Inputs
    /\ pc = "entry"
    /\ artifact = EmptyMap
    /\ module = <<>>
    /\ collector = NoCollector
    /\ finder = NewFinder
    /\ transformer = NewTransformer
    /\ hist = NoHistory
    /\ result = NoResult
    /\ runs = 1
    /\ first = NoResult
    /\ instance = NoInstance
    /\ last_call = NoCall

\* transform (lib.rs 22-23): the input payload is deserialized
ParseInput ==
    /\ pc = "entry"
    /\ IF ParsesAsConfig(input.config)
       THEN /\ pc' = "start"
            /\ UNCHANGED result
       ELSE /\ result' = Err("Failed to parse input")
            /\ pc' = "done"
    /\ UNCHANGED <<input, artifact, module, collector, finder, transformer, hist, runs, first,
                   instance, last_call>>

(***************************************************************************)
(* transform_source (transformer.rs 57-153), one action per stage           *)
(***************************************************************************)
\* lines 59-66
StubCheck ==
    /\ pc = "start"
    /\ IF is_graphql_system_file(input.source_path, input.config.graphql_system_path)
       THEN /\ result' = Ok(STUB, TRUE, <<>>, None)
            /\ pc' = "done"
       ELSE /\ result' = NoResult
            /\ pc' = "artifact"
    /\ UNCHANGED <<input, artifact, module, collector, finder, transformer, hist, runs, first, instance, last_call>>

\* lines 69-70
DeserializeArtifact ==
    /\ pc = "artifact"
    /\ LET parsed == ParseArtifact(input.artifact_json)
       IN  IF parsed.ok
           THEN /\ artifact' = parsed.table
                /\ pc' = "parse"
                /\ UNCHANGED result
           ELSE /\ result' = Err("Failed to parse artifact")
                /\ pc' = "done"
                /\ UNCHANGED artifact
    /\ UNCHANGED <<input, module, collector, finder, transformer, hist, runs, first, instance, last_call>>

\* lines 73-99
Parse ==
    /\ pc = "parse"
    /\ LET parsed == ParseModule(input.source_code)
       IN  IF parsed.ok
           THEN /\ module' = parsed.body
                /\ hist' = [NoHistory EXCEPT !.parsed = parsed.body]
                /\ pc' = "collect"
                /\ UNCHANGED result
           ELSE /\ result' = Err("Parse error")
                /\ pc' = "done"
                /\ UNCHANGED <<module, hist>>
    /\ UNCHANGED <<input, artifact, collector, finder, transformer, runs, first, instance, last_call>>

\* line 102
Collect ==
    /\ pc = "collect"
    /\ collector' = collect(module)
    /\ pc' = "analyze"
    /\ UNCHANGED <<input, artifact, module, finder, transformer, hist, result, runs, first, instance, last_call>>

\* lines 105-116
Analyze ==
    /\ pc = "analyze"
    /\ LET fnd == find(module, artifact, collector.metadata, input.source_path)
       IN  IF ~fnd.has_transforms
           THEN /\ finder' = [fnd EXCEPT !.errors = <<>>]
                /\ result' = Ok(input.source_code, FALSE, fnd.errors, None)
                /\ pc' = "done"
           ELSE /\ finder' = fnd
                /\ pc' = "rewrite"
                /\ UNCHANGED result
    /\ UNCHANGED <<input, artifact, module, collector, transformer, hist, runs, first, instance, last_call>>

\* lines 119-121
Rewrite ==
    /\ pc = "rewrite"
    /\ LET r == rewrite(module, finder, input.config.is_cjs, input.source_path)
       IN  /\ module' = r[1]
           /\ transformer' = r[2]
           /\ hist' = [hist EXCEPT !.rewritten = r[1]]
    /\ pc' = "imports"
    /\ UNCHANGED <<input, artifact, collector, finder, result, runs, first, instance, last_call>>

\* lines 124-129
ManageImports ==
    /\ pc = "imports"
    /\ LET body == visit_mut_module(module, transformer.needs_runtime,
                                    input.config.is_cjs,
                                    input.config.graphql_system_aliases)
       IN  /\ module' = body
           /\ hist' = [hist EXCEPT !.managed = body]
    /\ pc' = "insert"
    /\ UNCHANGED <<input, artifact, collector, finder, transformer, result, runs, first, instance, last_call>>

\* lines 132-134
InsertRuntimeCalls ==
    /\ pc = "insert"
    /\ IF Len(transformer.runtime_calls) # 0
       THEN /\ module' = insert_runtime_calls(module, transformer.runtime_calls)
            /\ transformer' = [transformer EXCEPT !.runtime_calls = <<>>]
       ELSE UNCHANGED <<module, transformer>>
    /\ pc' = "emit"
    /\ UNCHANGED <<input, artifact, collector, finder, hist, result, runs, first, instance, last_call>>

\* lines 137-152
Emit ==
    /\ pc = "emit"
    /\ LET emit_output == emit_module(module, input.config.source_map)
       IN  result' = Ok(emit_output.code, TRUE, finder.errors \o transformer.errors,
                        emit_output.source_map)
    /\ finder' = [finder EXCEPT !.errors = <<>>]
    /\ transformer' = [transformer EXCEPT !.errors = <<>>]
    /\ pc' = "done"
    /\ UNCHANGED <<input, artifact, module, collector, hist, runs, first, instance, last_call>>

\* the caller invokes the transform a second time on the same input
Again ==
    /\ pc = "done"
    /\ runs = 1
    /\ first' = result
    /\ runs' = runs + 1
    /\ pc' = "entry"
    /\ UNCHANGED <<input, artifact, module, collector, finder, transformer, hist, result,
                   instance, last_call>>

(***************************************************************************)
(* SwcTransformer (lib.rs 44-87): the artifact is deserialized once by the  *)
(* constructor, every transform call runs transform_source_ref              *)
(* (transformer.rs 165-255) on a reference to it.                           *)
(***************************************************************************)
\* transform_source_ref from the parse on (transformer.rs 176-254)
parse_and_transform(inp) ==
    LET parsed == ParseModule(inp.source_code)
    IN  IF ~parsed.ok THEN Err("Parse error")
        ELSE
        LET metadata == collect(parsed.body).metadata
            fnd == find(parsed.body, inp.artifact, metadata, inp.source_path)
        IN  IF ~fnd.has_transforms
            THEN Ok(inp.source_code, FALSE, fnd.errors, None)
            ELSE
            LET r == rewrite(parsed.body, fnd, inp.config.is_cjs, inp.source_path)
                managed == visit_mut_module(r[1], r[2].needs_runtime, inp.config.is_cjs,
                                            inp.config.graphql_system_aliases)
                body == IF Len(r[2].runtime_calls) # 0
                        THEN insert_runtime_calls(managed, r[2].runtime_calls)
                        ELSE managed
                emit_output == emit_module(body, inp.config.source_map)
            IN  Ok(emit_output.code, TRUE, fnd.errors \o r[2].errors, emit_output.source_map)

\* a transform that does not stub the graphql-system file
transform_source_ref_no_stub(inp) == parse_and_transform(inp)

\* inp is a TransformInputRef [source_code, source_path, artifact, config]
transform_source_ref(inp) ==
    IF is_graphql_system_file(inp.source_path, inp.config.graphql_system_path)
    THEN Ok(STUB, TRUE, <<>>, None)
    ELSE parse_and_transform(inp)

\* what else the caller passes to the instance between two calls on the input
OtherCalls ==
    {[source_code |-> RawText(<<S_MODEL, S_OP>>), source_path |-> "/p/a.ts"]}

\* the caller feeds the output of a transform that changed the module back in
OutputCalls ==
    IF result.status = "ok" /\ result.transformed
    THEN {[source_code |-> result.output_code, source_path |-> input.source_path]}
    ELSE {}

\* SwcTransformer::new, lib.rs 50-60
SwcTransformer_new ==
    /\ pc = "done"
    /\ runs = 2
    /\ LET parsed == ParseArtifact(input.artifact_json)
       IN  instance' = IF ~ParsesAsConfig(input.config)
                       THEN [NoInstance EXCEPT !.status = "Failed to parse config"]
                       ELSE IF ~parsed.ok
                       THEN [NoInstance EXCEPT !.status = "Failed to parse artifact"]
                       ELSE [status |-> "ok", artifact |-> parsed.table,
                             config |-> input.config]
    /\ last_call' = NoCall
    /\ pc' = "instance"
    /\ UNCHANGED <<input, artifact, module, collector, finder, transformer, hist, result, runs,
                   first>>

\* SwcTransformer::transform, lib.rs 71-86
SwcTransformer_transform ==
    /\ pc = "instance"
    /\ instance.status = "ok"
    /\ \E call \in OtherCalls \cup OutputCalls
                        \cup {[source_code |-> input.source_code,
                                source_path |-> input.source_path]} :
          last_call' = [source_code |-> call.source_code,
                        source_path |-> call.source_path,
                        result |-> transform_source_ref(
                                      [source_code |-> call.source_code,
                                       source_path |-> call.source_path,
                                       artifact |-> instance.artifact,
                                       config |-> instance.config]),
                        \* an earlier or this call on the instance was not on the input
                        after_other |-> last_call.after_other
                                          \/ call.source_code # input.source_code
                                          \/ call.source_path # input.source_path]
    /\ UNCHANGED <<input, pc, artifact, module, collector, finder, transformer, hist, result,
                   runs, first, instance>>

Next ==
    \/ ParseInput
    \/ StubCheck
    \/ DeserializeArtifact
    \/ Parse
    \/ Collect
    \/ Analyze
    \/ Rewrite
    \/ ManageImports
    \/ InsertRuntimeCalls
    \/ Emit
    \/ Again
    \/ SwcTransformer_new
    \/ SwcTransformer_transform

Spec == Init /\ [][Next]_vars

(***************************************************************************)
(* Reading a module body                                                    *)
(***************************************************************************)
RECURSIVE CallsOf(_), CallsOfKids(_, _)
CallsOfKids(kids, i) ==
    IF i > Len(kids) THEN <<>> ELSE CallsOf(kids[i]) \o CallsOfKids(kids, i + 1)

\* the call expressions of a tree, in source order
CallsOf(node) ==
    (IF node.t = "call" THEN <<node>> ELSE <<>>) \o CallsOfKids(node.kids, 1)

CallsOfBody(body) == CallsOfKids(body, 1)

Last(seq) == seq[Len(seq)]

\* the call expressions of a body whose span is sp
CallsAt(body, sp) ==
    LET calls == CallsOfBody(body)
    IN  {i \in 1..Len(calls) : calls[i].span = sp}

Emitted == pc = "done" /\ result.status = "ok" /\ result.output_code.kind = "emitted"

OutBody == result.output_code.body

IsRegistration(item) ==
    /\ item.t = "stmt"
    /\ item.kids[1].t = "call"
    /\ item.kids[1].span = DUMMY_SP
    /\ Last(item.kids[1].callee) \in {"composedOperation", "inlineOperation"}

IsLookup(call) ==
    /\ call.span[2] = 0
    /\ Last(call.callee) \in {"getComposedOperation", "getInlineOperation"}

ContainsLookup(item) ==
    LET calls == CallsOf(item) IN \E i \in 1..Len(calls) : IsLookup(calls[i])

(***************************************************************************)
(* C1: in every emitted module, every registration statement stands at an   *)
(* earlier module-body index than every module item that contains a         *)
(* rewritten lookup-by-name call site, wherever the imports of the input    *)
(* stand.                                                                   *)
(***************************************************************************)
C1_RegistrationBeforeLookup ==
    Emitted =>
        \A i, j \in 1..Len(OutBody) :
            IsRegistration(OutBody[i]) /\ ContainsLookup(OutBody[j]) => i < j

(***************************************************************************)
(* C2: two distinct builder-definition call sites registered by the         *)
(* collector never get the same ScopePath.                                  *)
(***************************************************************************)
C2_ScopePathsDistinct ==
    \A s1, s2 \in DOMAIN collector.metadata :
        s1 # s2 => collector.metadata[s1].ast_path # collector.metadata[s2].ast_path

(***************************************************************************)
(* C3: a module with zero builder-shaped calls comes back byte-identical    *)
(* with transformed = false.                                                *)
(***************************************************************************)
Parses == ParseModule(input.source_code).ok

BuilderShapedCalls ==
    LET calls == CallsOfBody(ParseModule(input.source_code).body)
    IN  {i \in 1..Len(calls) : IsSome(find_gql_builder_call(calls[i]))}

ReturnedUnchanged ==
    /\ result.status = "ok"
    /\ result.output_code = input.source_code
    /\ result.transformed = FALSE

IsSystemFile ==
    /\ IsSome(input.config.graphql_system_path)
    /\ ReplaceBackslash(input.source_path)
         = ReplaceBackslash(input.config.graphql_system_path[1])

ArtifactDeserializes ==
    \A i \in 1..Len(input.artifact_json) : input.artifact_json[i].type \in ArtifactTypes

InputDeserializes == ParsesAsConfig(input.config)

\* C3 as stated: for every config, the source text comes back unchanged.
C3_NoOpForEveryConfig ==
    (pc = "done" /\ Parses /\ BuilderShapedCalls = {}) => ReturnedUnchanged

\* C3 amended: a module that parses and has zero builder-shaped calls comes
\* back byte-identical with transformed = false whenever the artifact payload
\* deserializes and the source path is not the configured system file, for
\* every alias list and module format.
C3_NoOpUnchanged ==
    (pc = "done" /\ Parses /\ BuilderShapedCalls = {}
        /\ InputDeserializes /\ ArtifactDeserializes /\ ~IsSystemFile) => ReturnedUnchanged

\* a finished no-op transform of a module that imports from a legacy alias
C3_Witness ==
    /\ pc = "done" /\ Parses /\ BuilderShapedCalls = {}
    /\ \E i \in 1..Len(input.source_code.toks) :
          input.source_code.toks[i] = S_IMPORT_LEGACY_FOO
    /\ input.config.graphql_system_aliases = <<"@/legacy">>
    /\ input.config.is_cjs
    /\ ReturnedUnchanged

(***************************************************************************)
(* C4: a Model-kind call site whose inner builder call has fewer than three *)
(* arguments stays as it was, queues no registration statement and yields   *)
(* exactly one MissingBuilderArg diagnostic of stage Transform.             *)
(***************************************************************************)
ModelSitesMissingArg ==
    {s \in DOMAIN finder.replacements :
        /\ finder.replacements[s].artifact.type = "model"
        /\ Len(finder.replacements[s].builder_args) < 3}

RegisteredSitesBuilt ==
    {s \in DOMAIN finder.replacements :
        \/ finder.replacements[s].artifact.type = "inlineOperation"
        \/ /\ finder.replacements[s].artifact.type = "operation"
           /\ Len(finder.replacements[s].builder_args) >= 2}

\* the call expression of span s is in body exactly as the parser produced it
Untouched(body, s) ==
    LET now == CallsOfBody(body)
        before == CallsOfBody(hist.parsed)
    IN  /\ Cardinality(CallsAt(body, s)) = 1
        /\ \A i \in CallsAt(body, s) : \A j \in CallsAt(hist.parsed, s) : now[i] = before[j]

ModelArgDiagnostics(errors) ==
    {i \in 1..Len(errors) :
        /\ errors[i].code = "SODA_GQL_TRANSFORM_MISSING_BUILDER_ARG"
        /\ errors[i].stage = "Transform"
        /\ errors[i].builder_type = <<"model">>}

C4_ModelMissingArgUntouched ==
    /\ pc = "imports" =>
          /\ \A s \in ModelSitesMissingArg : Untouched(module, s)
          /\ Cardinality(ModelArgDiagnostics(transformer.errors))
                = Cardinality(ModelSitesMissingArg)
          /\ Len(transformer.runtime_calls) = Cardinality(RegisteredSitesBuilt)
    /\ Emitted =>
          /\ \A s \in ModelSitesMissingArg : Untouched(OutBody, s)
          /\ Cardinality(ModelArgDiagnostics(result.errors))
                = Cardinality(ModelSitesMissingArg)

\* an emitted module with one failed Model call site next to a rewritten
\* Operation call site
C4_Witness ==
    /\ Emitted
    /\ Cardinality(ModelSitesMissingArg) = 1
    /\ RegisteredSitesBuilt # {}
    /\ \A s \in ModelSitesMissingArg : Untouched(OutBody, s)
    /\ Cardinality(ModelArgDiagnostics(result.errors)) = 1

(***************************************************************************)
(* C5: when the source path equals the configured system-file path up to    *)
(* the separator style, the result is the fixed stub `export {};` with      *)
(* transformed = true, no diagnostics and no source map, whatever the       *)
(* source text is, and no pipeline stage has run.                           *)
(***************************************************************************)
C5_StubShortCircuit ==
    (pc = "done" /\ IsSystemFile) =>
        /\ result.status = "ok"
        /\ result.output_code = RawText(<<"export {};">>)
        /\ result.transformed = TRUE
        /\ result.errors = <<>>
        /\ result.source_map = None
        /\ artifact = EmptyMap
        /\ hist = NoHistory
        /\ collector = NoCollector
        /\ finder = NewFinder
        /\ transformer = NewTransformer

\* the stub returned for a backslash path and a text that does not parse but
\* holds a matching builder call, with a source map asked for
C5_Witness ==
    /\ pc = "done" /\ IsSystemFile
    /\ input.source_path # input.config.graphql_system_path[1]
    /\ input.source_code.toks = <<S_OP, S_SYNTAX_ERROR>>
    /\ input.config.source_map
    /\ result.output_code = RawText(<<"export {};">>)

(***************************************************************************)
(* C6: merging the runtime binding into an existing runtime import.  The    *)
(* Import Manager has just run when pc = "insert": hist.rewritten is the    *)
(* body it was given, hist.managed the body it produced.                    *)
(***************************************************************************)
ManagerRan == pc = "insert"

MatchesAlias(specifier) ==
    \E i \in 1..Len(input.config.graphql_system_aliases) :
        LET alias == input.config.graphql_system_aliases[i]
        IN  \/ specifier = alias
            \/ /\ Len(specifier) > Len(alias)
               /\ SubSeq(specifier, 1, Len(alias) + 1) = alias \o "/"

IsRuntimeImportDecl(item) == item.t = "import" /\ item.name = "@soda-gql/runtime"

LacksBinding(decl) ==
    \A k \in 1..Len(decl.kids) :
        ~(decl.kids[k].t = "named" /\ decl.kids[k].name = "gqlRuntime")

WithBinding(decl) == [decl EXCEPT !.kids = Append(@, Named("gqlRuntime"))]

RuntimeImportsBefore == SelectSeq(hist.rewritten, IsRuntimeImportDecl)

RuntimeImportsAfter == SelectSeq(hist.managed, IsRuntimeImportDecl)

\* C6 as stated: whenever some runtime import declaration lacks the binding,
\* a declaration that lacks it gets the specifier appended and the number of
\* runtime import declarations stays the same.
C6_MergeIntoLackingImport ==
    (/\ ManagerRan /\ transformer.needs_runtime
     /\ \E k \in 1..Len(RuntimeImportsBefore) : LacksBinding(RuntimeImportsBefore[k]))
    => /\ Len(RuntimeImportsAfter) = Len(RuntimeImportsBefore)
       /\ \E k \in 1..Len(RuntimeImportsBefore) :
             /\ LacksBinding(RuntimeImportsBefore[k])
             /\ RuntimeImportsAfter[k] = WithBinding(RuntimeImportsBefore[k])

\* C6 amended: when the runtime import is needed and the LAST import
\* declaration of the runtime module (one not stripped as a legacy import)
\* lacks the gqlRuntime binding, that declaration gets one named specifier
\* gqlRuntime appended, every other runtime import declaration is left as it
\* was and their number is unchanged; when the last one already has the
\* binding, none of them is changed.
C6_MergeIntoLastRuntimeImport ==
    (/\ ManagerRan /\ transformer.needs_runtime
     /\ Len(RuntimeImportsBefore) > 0
     /\ ~MatchesAlias("@soda-gql/runtime"))
    => LET n == Len(RuntimeImportsBefore)
       IN  /\ Len(RuntimeImportsAfter) = n
           /\ \A k \in 1..(n - 1) : RuntimeImportsAfter[k] = RuntimeImportsBefore[k]
           /\ RuntimeImportsAfter[n] =
                 IF LacksBinding(RuntimeImportsBefore[n])
                 THEN WithBinding(RuntimeImportsBefore[n])
                 ELSE RuntimeImportsBefore[n]

\* a merge into the only runtime import of a module that also lost a legacy
\* import
C6_Witness ==
    /\ ManagerRan /\ transformer.needs_runtime
    /\ Len(RuntimeImportsBefore) = 1
    /\ LacksBinding(RuntimeImportsBefore[1])
    /\ Len(hist.managed) < Len(hist.rewritten)
    /\ RuntimeImportsAfter = <<WithBinding(RuntimeImportsBefore[1])>>

(***************************************************************************)
(* C7: an ESM import declaration is removed if and only if its source       *)
(* equals a configured legacy alias or starts with the alias followed by    *)
(* `/`; `@/legacy-other` is kept under the alias `@/legacy`.                 *)
(***************************************************************************)
IsOtherImportDecl(item) == item.t = "import" /\ item.name # "@soda-gql/runtime"

IsKeptImportDecl(item) == IsOtherImportDecl(item) /\ ~MatchesAlias(item.name)

C7_LegacyImportRemoval ==
    ManagerRan =>
        /\ SelectSeq(hist.managed, IsOtherImportDecl)
              = SelectSeq(hist.rewritten, IsKeptImportDecl)
        /\ ~MatchesAlias("@soda-gql/runtime")
              => Len(RuntimeImportsAfter) >= Len(RuntimeImportsBefore)

\* under the alias `@/legacy`, `@/legacy/foo` is gone and `@/legacy-other`
\* is still there
C7_Witness ==
    /\ ManagerRan
    /\ input.config.graphql_system_aliases = <<"@/legacy">>
    /\ \E i \in 1..Len(hist.rewritten) :
          hist.rewritten[i].t = "import" /\ hist.rewritten[i].name = "@/legacy/foo"
    /\ \E i \in 1..Len(hist.rewritten) :
          hist.rewritten[i].t = "import" /\ hist.rewritten[i].name = "@/legacy-other"
    /\ \A i \in 1..Len(hist.managed) : hist.managed[i].name # "@/legacy/foo"
    /\ \E i \in 1..Len(hist.managed) :
          hist.managed[i].t = "import" /\ hist.managed[i].name = "@/legacy-other"

(***************************************************************************)
(* C8: resolve_canonical_id(path, scopePath) is the path with every         *)
(* backslash replaced by a forward slash, then `::`, then scopePath; a       *)
(* second call gives the same string, and paths that differ only in the     *)
(* separator style give the same id.                                        *)
(***************************************************************************)
CharAt(str, k) == SubSeq(str, k, k)

SameUpToSeparators(p, q) ==
    /\ Len(p) = Len(q)
    /\ \A k \in 1..Len(p) :
          \/ CharAt(p, k) = CharAt(q, k)
          \/ {CharAt(p, k), CharAt(q, k)} = {"/", "\\"}

SeparatorVariants == {"/p/a.ts", "\\p\\a.ts", "\\p/a.ts", "/p\\a.ts", "/p/b.ts"}

HasCanonicalFormat(id, path, scope_path) ==
    /\ Len(id) = Len(path) + 2 + Len(scope_path)
    /\ \A k \in 1..Len(path) :
          CharAt(id, k) = IF CharAt(path, k) = "\\" THEN "/" ELSE CharAt(path, k)
    /\ SubSeq(id, Len(path) + 1, Len(path) + 2) = "::"
    /\ SubSeq(id, Len(path) + 3, Len(id)) = scope_path

C8_CanonicalIdFormat ==
    \A s \in DOMAIN collector.metadata :
        LET scope_path == collector.metadata[s].ast_path
            id == resolve_canonical_id(input.source_path, scope_path)
        IN  /\ HasCanonicalFormat(id, input.source_path, scope_path)
            /\ resolve_canonical_id(input.source_path, scope_path) = id
            /\ \A q \in SeparatorVariants :
                  SameUpToSeparators(q, input.source_path)
                      <=> resolve_canonical_id(q, scope_path) = id
            /\ s \in DOMAIN finder.replacements
                  => finder.replacements[s].canonical_id = id

\* a call site of the backslash-style path resolved under the forward-slash id
C8_Witness ==
    /\ input.source_path = "\\p\\a.ts"
    /\ \E s \in DOMAIN finder.replacements :
          /\ s \in DOMAIN collector.metadata
          /\ collector.metadata[s].ast_path = "a"
          /\ finder.replacements[s].canonical_id = "/p/a.ts::a"

ParsedCalls == CallsOfBody(hist.parsed)

Sites ==
    LET calls == ParsedCalls
    IN  {i \in 1..Len(calls) : IsSome(find_gql_builder_call(calls[i]))}

ArgsNeeded(type) ==
    CASE type = "model" -> 3
      [] type = "slice" -> 3
      [] type = "operation" -> 2
      [] type = "inlineOperation" -> 0

\* what becomes of call site i: "ok" or the code of its diagnostic
Outcome(i) ==
    LET call == ParsedCalls[i]
    IN  IF call.span \notin DOMAIN collector.metadata
        THEN "SODA_GQL_METADATA_NOT_FOUND"
        ELSE LET id == ReplaceBackslash(input.source_path) \o "::"
                          \o collector.metadata[call.span].ast_path
             IN  IF id \notin DOMAIN artifact
                 THEN "SODA_GQL_ANALYSIS_ARTIFACT_NOT_FOUND"
                 ELSE IF Len(find_gql_builder_call(call)[1].kids)
                            < ArgsNeeded(artifact[id].type)
                 THEN "SODA_GQL_TRANSFORM_MISSING_BUILDER_ARG"
                 ELSE "ok"

DiagnosticCodes ==
    {"SODA_GQL_METADATA_NOT_FOUND", "SODA_GQL_ANALYSIS_ARTIFACT_NOT_FOUND",
     "SODA_GQL_TRANSFORM_MISSING_BUILDER_ARG"}

RuntimeCallsIn(body) ==
    LET calls == CallsOfBody(body)
    IN  {i \in 1..Len(calls) :
            /\ calls[i].span = DUMMY_SP
            /\ Last(calls[i].callee) \in {"model", "slice", "getComposedOperation",
                                          "getInlineOperation"}}

PipelineRan ==
    pc = "done" /\ InputDeserializes /\ ~IsSystemFile /\ ArtifactDeserializes /\ Parses

C10_DiagnosticsNeverAbort ==
    PipelineRan =>
        /\ result.status = "ok"
        /\ \A code \in DiagnosticCodes :
              Cardinality({k \in 1..Len(result.errors) : result.errors[k].code = code})
                 = Cardinality({i \in Sites : Outcome(i) = code})
        /\ \A k \in 1..Len(result.errors) : result.errors[k].code \in DiagnosticCodes
        /\ result.transformed <=> (\E i \in Sites : Outcome(i) \in {"ok",
                                       "SODA_GQL_TRANSFORM_MISSING_BUILDER_ARG"})
        /\ ~result.transformed => result.output_code = input.source_code
        /\ result.transformed =>
              /\ result.output_code.kind = "emitted"
              /\ \A i \in Sites :
                    IF Outcome(i) = "ok"
                    THEN CallsAt(OutBody, ParsedCalls[i].span) = {}
                    ELSE Untouched(OutBody, ParsedCalls[i].span)
              /\ Cardinality(RuntimeCallsIn(OutBody))
                    = Cardinality({i \in Sites : Outcome(i) = "ok"})

\* one file with a site of each failing kind present next to a rewritten site
C10_Witness ==
    /\ PipelineRan /\ result.status = "ok" /\ result.transformed
    /\ \E i, j, k \in Sites :
          /\ Outcome(i) = "ok"
          /\ Outcome(j) = "SODA_GQL_ANALYSIS_ARTIFACT_NOT_FOUND"
          /\ Outcome(k) = "SODA_GQL_TRANSFORM_MISSING_BUILDER_ARG"
          /\ j < i /\ k < i
          /\ CallsAt(OutBody, ParsedCalls[i].span) = {}
          /\ Untouched(OutBody, ParsedCalls[j].span)
          /\ Untouched(OutBody, ParsedCalls[k].span)
    /\ Len(result.errors) = 2

\* the Metadata Collector has run over the module that hist.parsed holds
Collected == hist.parsed # <<>> /\ ~(runs = 1 /\ pc = "collect")

(***************************************************************************)
(* C11: every call expression of the parsed module that passes the Call     *)
(* Analyzer's shape match and inner-call extraction has an entry in the     *)
(* Metadata Collector's map, so no MetadataNotFound diagnostic is emitted;  *)
(* the Collector and the Analyzer accept the same call sites.               *)
(***************************************************************************)
C11_CollectorCoversAnalyzer ==
    Collected =>
        /\ \A i \in Sites : ParsedCalls[i].span \in DOMAIN collector.metadata
        /\ {ParsedCalls[i].span : i \in Sites} = DOMAIN collector.metadata
        /\ (pc = "done" /\ result.status = "ok") =>
              \A k \in 1..Len(result.errors) :
                  result.errors[k].code # "SODA_GQL_METADATA_NOT_FOUND"

\* the last call on the instance had the source text and path of the input
CalledOnInput ==
    /\ pc = "instance"
    /\ instance.status = "ok"
    /\ last_call.source_path = input.source_path
    /\ last_call.source_code = input.source_code

(***************************************************************************)
(* C12: a transform call on a reusable transformer instance, whatever calls *)
(* were made on the instance before, gives the result of the one-shot entry *)
(* point on the same source text, path, artifact and config; no call        *)
(* changes the artifact table or the config of the instance.                *)
(***************************************************************************)
C12_InstanceEqualsOneShot ==
    (pc = "instance" /\ instance.status = "ok") =>
        /\ instance.artifact = ParseArtifact(input.artifact_json).table
        /\ instance.config = input.config
        /\ CalledOnInput => last_call.result = result

\* a call on the input after a call on another text, with a rewritten site and a diagnostic
C12_Witness ==
    /\ CalledOnInput
    /\ last_call.after_other
    /\ last_call.result.status = "ok"
    /\ last_call.result.transformed
    /\ Len(last_call.result.errors) > 0
    /\ result = last_call.result

\* the result is a fatal error: a message, no output code, no diagnostics list
IsFatal(r) ==
    /\ r.status = "err"
    /\ r.message # ""
    /\ r.output_code = RawText(<<>>)
    /\ r.errors = <<>>

\* C13 as stated: fatal exactly when the source text fails to parse or the
\* artifact payload fails to deserialize.
C13_FatalIffParseOrArtifact ==
    pc = "done" => (IsFatal(result) <=> (~Parses \/ ~ArtifactDeserializes))

(***************************************************************************)
(* C13 amended: the one-shot entry point returns a fatal error, with no     *)
(* output code and no diagnostics list, exactly when the input payload      *)
(* (its config) fails to deserialize, or the source path is not the         *)
(* configured graphql-system file and the artifact payload fails to         *)
(* deserialize or the source text fails to parse; in every other case the   *)
(* result is an output with a diagnostics list.                             *)
(***************************************************************************)
C13_FatalCases ==
    pc = "done" =>
        /\ IsFatal(result) <=>
              \/ ~InputDeserializes
              \/ (~IsSystemFile /\ (~ArtifactDeserializes \/ ~Parses))
        /\ ~IsFatal(result) => result.status = "ok"
        /\ result.status = "err" =>
              result.message =
                 IF ~InputDeserializes THEN "Failed to parse input"
                 ELSE IF ~ArtifactDeserializes THEN "Failed to parse artifact"
                 ELSE "Parse error"

\* a text that does not parse, under a payload that deserializes, ends fatally
C13_Witness ==
    /\ pc = "done"
    /\ InputDeserializes /\ ArtifactDeserializes /\ ~IsSystemFile /\ ~Parses
    /\ IsFatal(result)
    /\ result.message = "Parse error"

\* the CanonicalId of call site i, which has collector metadata
SiteId(i) ==
    ReplaceBackslash(input.source_path) \o "::"
        \o collector.metadata[ParsedCalls[i].span].ast_path

\* the shape-matched sites with metadata whose CanonicalId the artifact table lacks
StaleSites == {i \in Sites : Outcome(i) = "SODA_GQL_ANALYSIS_ARTIFACT_NOT_FOUND"}

IsArtifactNotFound(e, id) ==
    /\ e.code = "SODA_GQL_ANALYSIS_ARTIFACT_NOT_FOUND"
    /\ e.stage = "Analysis"
    /\ e.filename = Some(input.source_path)
    /\ e.canonical_id = Some(id)

(***************************************************************************)
(* C14: for every call site that passes the shape match and has collector   *)
(* metadata but whose CanonicalId is not in the artifact table, the         *)
(* Analyzer records no directive and emits exactly one ArtifactNotFound     *)
(* diagnostic of stage Analysis with the file name and that CanonicalId;    *)
(* when every shape-matched call of the file is such a site, the result is  *)
(* the unchanged source with transformed = false and those diagnostics.     *)
(***************************************************************************)
C14_ArtifactNotFound ==
    PipelineRan =>
        /\ \A i \in StaleSites :
              /\ ParsedCalls[i].span \notin DOMAIN finder.replacements
              /\ Cardinality({k \in 1..Len(result.errors) :
                                 IsArtifactNotFound(result.errors[k], SiteId(i))})
                    = Cardinality({j \in StaleSites : SiteId(j) = SiteId(i)})
        /\ Cardinality({k \in 1..Len(result.errors) :
                           result.errors[k].code = "SODA_GQL_ANALYSIS_ARTIFACT_NOT_FOUND"})
              = Cardinality(StaleSites)
        /\ StaleSites = Sites =>
              /\ ReturnedUnchanged
              /\ Len(result.errors) = Cardinality(Sites)
              /\ \A k \in 1..Len(result.errors) :
                    \E i \in StaleSites : IsArtifactNotFound(result.errors[k], SiteId(i))

\* a file whose two call sites both miss the artifact table
C14_Witness ==
    /\ PipelineRan
    /\ Cardinality(Sites) = 2
    /\ StaleSites = Sites
    /\ ReturnedUnchanged
    /\ Len(result.errors) = 2
    /\ \E i, j \in StaleSites :
          /\ SiteId(i) # SiteId(j)
          /\ IsArtifactNotFound(result.errors[1], SiteId(i))
          /\ IsArtifactNotFound(result.errors[2], SiteId(j))

\* `const x = require(...)`: a variable declaration all of whose initializers are require calls
IsRequireDecl(item) ==
    /\ item.t = "var"
    /\ \A k \in 1..Len(item.kids) :
          /\ Len(item.kids[k].kids) = 1
          /\ item.kids[k].kids[1].t = "call"
          /\ item.kids[k].kids[1].callee = <<"require">>

RECURSIVE LeadingRun(_, _)
\* the length of the contiguous leading run of import and require declarations from item i on
LeadingRun(body, i) ==
    IF i > Len(body) THEN 0
    ELSE IF body[i].t = "import" \/ IsRequireDecl(body[i]) THEN 1 + LeadingRun(body, i + 1)
    ELSE 0

Without(body, p) == SubSeq(body, 1, p - 1) \o SubSeq(body, p + 1, Len(body))

\* the declaration the Import Manager synthesizes for the configured module format
Synthesized ==
    IF input.config.is_cjs
    THEN [t |-> "var", name |-> "", callee |-> <<>>, span |-> <<0, 0>>,
          kids |-> <<[t |-> "decl", name |-> "__soda_gql_runtime", callee |-> <<>>,
                      span |-> <<0, 0>>,
                      kids |-> <<[t |-> "call", name |-> "", callee |-> <<"require">>,
                                  span |-> <<0, 0>>,
                                  kids |-> <<[t |-> "str", name |-> "@soda-gql/runtime",
                                              callee |-> <<>>, kids |-> <<>>,
                                              span |-> <<0, 0>>]>>]>>]>>]
    ELSE [t |-> "import", name |-> "@soda-gql/runtime", callee |-> <<>>, span |-> <<0, 0>>,
          kids |-> <<[t |-> "named", name |-> "gqlRuntime", callee |-> <<>>, kids |-> <<>>,
                      span |-> <<0, 0>>]>>]

\* the runtime import is needed and the rewritten module imports nothing from the runtime module
FreshImportCase ==
    /\ ManagerRan
    /\ transformer.needs_runtime
    /\ \A k \in 1..Len(hist.rewritten) : ~IsRuntimeImportDecl(hist.rewritten[k])

(***************************************************************************)
(* C15: when the runtime import is needed and the module has no import of   *)
(* the runtime module, the synthesized import (ESM) or require declaration  *)
(* (CJS) stands in the managed body at the index immediately after the      *)
(* contiguous leading run of import and require declarations of the         *)
(* filtered body, index 0 when the body starts with another kind of item.   *)
(***************************************************************************)
C15_InsertAfterLeadingRun ==
    FreshImportCase =>
        \E p \in 1..Len(hist.managed) :
            /\ hist.managed[p] = Synthesized
            /\ p - 1 = LeadingRun(Without(hist.managed, p), 1)

\* the synthesized call expressions of an item whose accessor starts at identifier base
RuntimeCallsOn(item, base) ==
    LET calls == CallsOf(item)
    IN  {i \in 1..Len(calls) :
            /\ calls[i].span = <<0, 0>>
            /\ Len(calls[i].callee) > 1
            /\ calls[i].callee[1] = base
            /\ calls[i].callee[Len(calls[i].callee) - 1] = "gqlRuntime"}

\* `const __soda_gql_runtime = require("@soda-gql/runtime")`
IsRuntimeRequire(item) ==
    /\ item.t = "var"
    /\ \E k \in 1..Len(item.kids) :
          /\ item.kids[k].name = "__soda_gql_runtime"
          /\ Len(item.kids[k].kids) = 1
          /\ item.kids[k].kids[1].t = "call"
          /\ item.kids[k].kids[1].callee = <<"require">>
          /\ Len(item.kids[k].kids[1].kids) = 1
          /\ item.kids[k].kids[1].kids[1].t = "str"
          /\ item.kids[k].kids[1].kids[1].name = "@soda-gql/runtime"

(***************************************************************************)
(* C16: in CJS output mode, in every emitted module the declaration         *)
(* `const __soda_gql_runtime = require("@soda-gql/runtime")` stands at an   *)
(* earlier module-body index than every top-level item that references      *)
(* `__soda_gql_runtime`: every inserted registration statement and every    *)
(* item containing a rewritten call site.                                   *)
(***************************************************************************)
C16_RequireBeforeUse ==
    (Emitted /\ input.config.is_cjs) =>
        \A p \in 1..Len(OutBody) :
            RuntimeCallsOn(OutBody[p], "__soda_gql_runtime") # {} =>
                \E q \in 1..(p - 1) : IsRuntimeRequire(OutBody[q])

\* the synthesized runtime calls of an item: <accessor>.<method>(...) built with the dummy span
SynthesizedCalls(item) ==
    LET calls == CallsOf(item)
    IN  {calls[i] : i \in {j \in 1..Len(calls) :
            /\ calls[j].span = <<0, 0>>
            /\ Len(calls[j].callee) > 1
            /\ calls[j].callee[Len(calls[j].callee) - 1] = "gqlRuntime"}}

\* a top-level import or require declaration that binds the identifier
Binds(item, ident) ==
    \/ /\ item.t = "import"
       /\ \E k \in 1..Len(item.kids) : item.kids[k].name = ident
    \/ /\ IsRequireDecl(item)
       /\ \E k \in 1..Len(item.kids) : item.kids[k].name = ident

(***************************************************************************)
(* C17: whenever the emitted module contains a synthesized runtime call,    *)
(* the identifier at the base of its accessor (`gqlRuntime` in ESM mode,    *)
(* `__soda_gql_runtime` in CJS mode) is bound by a top-level import or      *)
(* require declaration of the emitted module, in both module formats and    *)
(* also when the input already imports from the runtime module.             *)
(***************************************************************************)
C17_AccessorBaseBound ==
    Emitted =>
        \A p \in 1..Len(OutBody) : \A call \in SynthesizedCalls(OutBody[p]) :
            /\ call.callee[1] = IF input.config.is_cjs THEN "__soda_gql_runtime"
                                ELSE "gqlRuntime"
            /\ \E q \in 1..Len(OutBody) : Binds(OutBody[q], call.callee[1])

\* the index of the last import declaration of a body, 0 when it has none
LastImportIndex(body) ==
    IF \E k \in 1..Len(body) : body[k].t = "import"
    THEN CHOOSE k \in 1..Len(body) :
            /\ body[k].t = "import"
            /\ \A j \in (k + 1)..Len(body) : body[j].t # "import"
    ELSE 0

\* after is before with the block spliced in behind its last import declaration
SplicedAfterImports(before, block, after) ==
    LET pos == LastImportIndex(before)
    IN  /\ Len(after) = Len(before) + Len(block)
        /\ \A k \in 1..pos : after[k] = before[k]
        /\ \A j \in 1..Len(block) : after[pos + j] = block[j]
        /\ \A k \in (pos + 1)..Len(before) : after[k + Len(block)] = before[k]

(***************************************************************************)
(* C18: the Statement Inserter places all pending registration statements   *)
(* as one contiguous block starting at the index immediately after the last *)
(* import declaration of the import-managed module body (index 0 when it    *)
(* has none), in the order in which the AST Rewriter queued them, and       *)
(* changes no other module item nor their relative order.                   *)
(***************************************************************************)
C18_RegistrationBlockAfterImports ==
    [][pc = "insert" =>
          /\ SplicedAfterImports(module, transformer.runtime_calls, module')
          /\ \A j \in 1..Len(transformer.runtime_calls) :
                IsRegistration(transformer.runtime_calls[j])]_vars

\* two registration statements stand behind the last of two imports, which follows a statement
C18_Witness ==
    /\ pc = "emit"
    /\ Len(module) = Len(hist.managed) + 2
    /\ \E pos \in 2..Len(hist.managed) :
          /\ pos = LastImportIndex(hist.managed)
          /\ \E k \in 1..(pos - 1) : hist.managed[k].t # "import"
          /\ IsRegistration(module[pos + 1])
          /\ IsRegistration(module[pos + 2])
          /\ module[pos + 1] # module[pos + 2]
          /\ pos < Len(hist.managed)

(***************************************************************************)
(* C19: for every base scope path p, the first builder definition           *)
(* registered at p receives the ScopePath p without suffix and the k-th     *)
(* definition registered at p (k >= 2) receives p followed by `$` and k-1,  *)
(* where only definitions registered at that same base path are counted.    *)
(***************************************************************************)
C19_OccurrenceSuffix ==
    Collected =>
        \A i \in 1..Len(collector.registered) :
            LET p == collector.registered[i].base_path
                k == Cardinality({j \in 1..i : collector.registered[j].base_path = p})
            IN  collector.registered[i].path =
                    IF k = 1 THEN p ELSE p \o "$" \o ToString(k - 1)

(***************************************************************************)
(* C20: during the scope-path pass the n-th anonymous arrow function        *)
(* entered (n = 0, 1, 2, ... in traversal order over the whole module) gets *)
(* the segment `arrow#n` and the n-th anonymous function expression entered *)
(* gets `function#n`; each kind has its own counter, advanced only by       *)
(* entering an anonymous construct of that kind.                            *)
(***************************************************************************)
C20_AnonymousSegments ==
    Collected =>
        \A i \in 1..Len(collector.entered) :
            LET kind == collector.entered[i].kind
                n == Cardinality({j \in 1..(i - 1) : collector.entered[j].kind = kind})
            IN  /\ kind \in {"arrow", "function"}
                /\ collector.entered[i].name = kind \o "#" \o ToString(n)

RECURSIVE OutsideOf(_), OutsideOfKids(_, _)
OutsideOfKids(kids, i) ==
    IF i > Len(kids) THEN <<>> ELSE OutsideOf(kids[i]) \o OutsideOfKids(kids, i + 1)

\* the nodes of a tree in traversal order, without what lies inside a registered call
OutsideOf(node) ==
    <<node>> \o (IF node.t = "call" /\ node.span \in DOMAIN collector.metadata
                 THEN <<>>
                 ELSE OutsideOfKids(node.kids, 1))

OutsideRegistered == OutsideOfKids(hist.parsed, 1)

IsAnonymousFunction(node) == node.t = "arrow" \/ (node.t = "fn" /\ node.name = "")

(***************************************************************************)
(* C21: when the Metadata Collector registers a builder-definition call it  *)
(* does not visit that call's children: no call expression nested inside a  *)
(* registered call has a metadata entry, and the anonymous-name counters,   *)
(* the duplicate-path counters and the scope stack are advanced only by     *)
(* constructs outside registered calls.                                     *)
(***************************************************************************)
C21_RegisteredCallNotDescended ==
    Collected =>
        LET calls == ParsedCalls
            outside == OutsideRegistered
        IN  /\ \A i \in 1..Len(calls) :
                  calls[i].span \in DOMAIN collector.metadata =>
                     LET inner == CallsOfKids(calls[i].kids, 1)
                     IN  \A k \in 1..Len(inner) :
                            inner[k].span \notin DOMAIN collector.metadata
            /\ Len(collector.entered)
                  = Cardinality({k \in 1..Len(outside) : IsAnonymousFunction(outside[k])})
            /\ Len(collector.registered)
                  = Cardinality({k \in 1..Len(outside) :
                                    /\ outside[k].t = "call"
                                    /\ outside[k].span \in DOMAIN collector.metadata})
            /\ \A key \in DOMAIN collector.anonymous_counters :
                  collector.anonymous_counters[key]
                     = Cardinality({k \in 1..Len(collector.entered) :
                                       collector.entered[k].kind = key})
                       + Cardinality({k \in 1..Len(collector.registered) :
                                         collector.registered[k].base_path = key})
            /\ collector.scope_stack = <<>>

\* a definition with a definition and an arrow function among its builder arguments,
\* followed by a definition inside the first arrow function the collector enters
C21_Witness ==
    /\ Collected
    /\ input.source_code.toks = <<S_NESTED, S_IN_ARROW>>
    /\ Cardinality(DOMAIN collector.metadata) = 2
    /\ <<1, 1>> \in DOMAIN collector.metadata
    /\ <<1, 3>> \notin DOMAIN collector.metadata
    /\ collector.metadata[<<2, 1>>].ast_path = "h.arrow#0"
    /\ Len(collector.entered) = 1

\* the segment a construct contributes to the scope path of what it encloses; an
\* anonymous function contributes its kind and `#`, whatever its number
SegmentOf(node) ==
    CASE node.t \in {"decl", "fndecl", "classdecl", "classexpr", "method", "prop"} ->
            IF node.name # "" THEN <<node.name>> ELSE <<>>
      [] node.t = "fn" -> IF node.name # "" THEN <<node.name>> ELSE <<"function#">>
      [] node.t = "arrow" -> <<"arrow#">>
      [] node.t = "assign" ->
            IF \/ (Len(node.callee) = 2 /\ node.callee[1] = "exports")
               \/ (Len(node.callee) = 3 /\ node.callee[1] = "module"
                      /\ node.callee[2] = "exports")
            THEN <<Last(node.callee)>>
            ELSE <<>>
      [] OTHER -> <<>>

RECURSIVE EnclosingOf(_, _), EnclosingOfKids(_, _, _)
EnclosingOfKids(kids, i, segs) ==
    IF i > Len(kids) THEN <<>>
    ELSE EnclosingOf(kids[i], segs) \o EnclosingOfKids(kids, i + 1, segs)

\* for each registered call of a tree, in traversal order, the segments of the
\* constructs that enclose it, outermost first
EnclosingOf(node, segs) ==
    IF node.t = "call" /\ node.span \in DOMAIN collector.metadata
    THEN <<segs>>
    ELSE EnclosingOfKids(node.kids, 1, segs \o SegmentOf(node))

WithoutNumber(segment) ==
    IF StartsWith(segment, "arrow#") THEN "arrow#"
    ELSE IF StartsWith(segment, "function#") THEN "function#"
    ELSE segment

(***************************************************************************)
(* C22: at every registered builder definition the base scope path is the   *)
(* dot-join, outermost first, of the segments of exactly the named          *)
(* constructs that enclose the call (identifier-bound variable declarators, *)
(* functions, arrows, classes, class methods, object properties with        *)
(* identifier or string key, CommonJS export-assignment targets); every     *)
(* push is matched by a pop, so the scope stack is empty when the traversal *)
(* ends and siblings never see each other's segments.                       *)
(***************************************************************************)
C22_ScopePathIsEnclosingNames ==
    Collected =>
        LET expected == EnclosingOfKids(hist.parsed, 1, <<>>)
        IN  /\ Len(collector.registered) = Len(expected)
            /\ \A i \in 1..Len(collector.registered) :
                  LET reg == collector.registered[i]
                  IN  /\ [k \in 1..Len(reg.scope) |-> WithoutNumber(reg.scope[k])]
                            = expected[i]
                      /\ reg.base_path = Join(reg.scope, ".")
            /\ collector.scope_stack = <<>>

\* the call sites with a replacement directive, and those among them whose synthesis fails
DirectiveSites ==
    {i \in Sites : Outcome(i) \in {"ok", "SODA_GQL_TRANSFORM_MISSING_BUILDER_ARG"}}

FailedSites == {i \in Sites : Outcome(i) = "SODA_GQL_TRANSFORM_MISSING_BUILDER_ARG"}

\* an import of the runtime module that binds gqlRuntime, or the runtime require
IsRuntimeBinding(item) ==
    \/ IsRuntimeImportDecl(item) /\ ~LacksBinding(item)
    \/ IsRuntimeRequire(item)

(***************************************************************************)
(* C23: if builder synthesis fails for every call site that has a           *)
(* directive, the result still has transformed = true, the emitted module   *)
(* contains the runtime import or require although no call site was         *)
(* rewritten, and one MissingBuilderArg diagnostic is returned per failed   *)
(* call site.                                                               *)
(***************************************************************************)
C23_UnusedRuntimeImport ==
    (PipelineRan /\ DirectiveSites # {} /\ FailedSites = DirectiveSites) =>
        /\ result.status = "ok"
        /\ result.transformed
        /\ result.output_code.kind = "emitted"
        /\ \E p \in 1..Len(OutBody) : IsRuntimeBinding(OutBody[p])
        /\ RuntimeCallsIn(OutBody) = {}
        /\ \A p \in 1..Len(OutBody) : ~IsRegistration(OutBody[p])
        /\ \A i \in Sites : Untouched(OutBody, ParsedCalls[i].span)
        /\ Cardinality({k \in 1..Len(result.errors) :
                           /\ result.errors[k].code = "SODA_GQL_TRANSFORM_MISSING_BUILDER_ARG"
                           /\ result.errors[k].stage = "Transform"})
              = Cardinality(FailedSites)

\* a module without imports whose only directive site lacks a builder argument
C23_Witness ==
    /\ PipelineRan
    /\ Cardinality(DirectiveSites) = 1
    /\ FailedSites = DirectiveSites
    /\ \A k \in 1..Len(hist.parsed) : hist.parsed[k].t # "import"
    /\ result.transformed
    /\ \E p \in 1..Len(OutBody) : IsRuntimeBinding(OutBody[p])
    /\ RuntimeCallsIn(OutBody) = {}
    /\ Len(result.errors) = 1

\* the block of a builder-shaped call's callback, None for an expression-bodied arrow
CallbackBlock(call) ==
    IF ~is_gql_member_expression(call) \/ Len(call.kids) # 1 THEN None
    ELSE LET callback == call.kids[1]
         IN  IF callback.t = "arrow" /\ callback.kids[1].t = "block" THEN Some(callback.kids[1])
             ELSE IF callback.t = "fn" /\ Len(callback.kids) = 1 THEN Some(callback.kids[1])
             ELSE None

ReturnsOf(block) == {k \in 1..Len(block.kids) : block.kids[k].t = "return"}

\* exactly one top-level return statement, and its argument is a call expression
SoleReturnOfCall(block) ==
    /\ Cardinality(ReturnsOf(block)) = 1
    /\ \A k \in ReturnsOf(block) :
          Len(block.kids[k].kids) = 1 /\ block.kids[k].kids[1].t = "call"

BlockSites == {i \in 1..Len(ParsedCalls) : IsSome(CallbackBlock(ParsedCalls[i]))}

(***************************************************************************)
(* C24: inner call extraction for a block-bodied callback yields a builder  *)
(* call only when the block's top-level statements contain exactly one      *)
(* return statement and that return's argument is a call expression; in     *)
(* every other case nothing is extracted and the call site gets no          *)
(* directive and no diagnostic.                                             *)
(***************************************************************************)
C24_SoleReturnExtraction ==
    PipelineRan =>
        /\ \A i \in BlockSites :
              LET call == ParsedCalls[i]
                  sole == SoleReturnOfCall(CallbackBlock(call)[1])
              IN  /\ IsSome(find_gql_builder_call(call)) => sole
                  /\ ~sole => call.span \notin DOMAIN finder.replacements
        /\ ( /\ BlockSites # {}
             /\ \A i \in 1..Len(ParsedCalls) :
                   is_gql_member_expression(ParsedCalls[i]) =>
                       /\ i \in BlockSites
                       /\ ~SoleReturnOfCall(CallbackBlock(ParsedCalls[i])[1]) )
              => result.errors = <<>> /\ ReturnedUnchanged

\* require(<string literal>) of a legacy alias
IsRequireOfLegacy(e) ==
    /\ e.t = "call" /\ e.callee = <<"require">>
    /\ Len(e.kids) = 1 /\ e.kids[1].t = "str"
    /\ MatchesAlias(e.kids[1].name)

IsInteropCall(e) ==
    /\ e.t = "call"
    /\ e.callee \in {<<"__importDefault">>, <<"__importStar">>}
    /\ Len(e.kids) = 1

\* the initializer is the legacy require, bare or under exactly one interop helper
IsLegacyRequireOneLayer(decl) ==
    /\ Len(decl.kids) = 1
    /\ \/ IsRequireOfLegacy(decl.kids[1])
       \/ IsInteropCall(decl.kids[1]) /\ IsRequireOfLegacy(decl.kids[1].kids[1])

RECURSIVE IsLegacyRequireUnder(_)
IsLegacyRequireUnder(e) ==
    \/ IsRequireOfLegacy(e)
    \/ IsInteropCall(e) /\ IsLegacyRequireUnder(e.kids[1])

\* the initializer is the legacy require under any number of interop helpers
IsLegacyRequireAnyLayers(decl) == Len(decl.kids) = 1 /\ IsLegacyRequireUnder(decl.kids[1])

IsParsedVarDecl(item) == item.t = "var" /\ item.span # DUMMY_SP

\* the top-level variable declarations of a body without the declarators
\* that Drops selects, a declaration left without declarators removed
VarDeclsWithout(body, Drops(_)) ==
    LET Kept(decl) == ~Drops(decl)
        NonEmpty(item) == Len(item.kids) > 0
        decls == SelectSeq(body, IsParsedVarDecl)
    IN  SelectSeq([k \in 1..Len(decls) |->
                      [decls[k] EXCEPT !.kids = SelectSeq(@, Kept)]], NonEmpty)

(***************************************************************************)
(* C25 as stated: in a top-level variable declaration the Import Manager    *)
(* drops a declarator if and only if its initializer is                     *)
(* require(<string literal>), bare or wrapped in exactly one layer of       *)
(* __importDefault/__importStar, whose literal matches a legacy alias; the  *)
(* other declarators are kept in their order, and the declaration is        *)
(* removed exactly when no declarator remains.                              *)
(***************************************************************************)
C25_DropsOneLayerRequire ==
    ManagerRan =>
        SelectSeq(hist.managed, IsParsedVarDecl)
            = VarDeclsWithout(hist.rewritten, IsLegacyRequireOneLayer)

(***************************************************************************)
(* C25 amended: the dropped declarators are those whose initializer is      *)
(* require(<string literal>) of a legacy alias, bare or wrapped in any      *)
(* number of layers of __importDefault/__importStar; the other declarators  *)
(* are kept in their order, and the declaration is removed exactly when no  *)
(* declarator remains.                                                      *)
(***************************************************************************)
C25_DropsWrappedRequire ==
    ManagerRan =>
        SelectSeq(hist.managed, IsParsedVarDecl)
            = VarDeclsWithout(hist.rewritten, IsLegacyRequireAnyLayers)

\* a doubly wrapped legacy require was dropped, and a declaration of four
\* declarators lost exactly its legacy one
C25_Witness ==
    /\ ManagerRan
    /\ \E i \in 1..Len(hist.rewritten) :
          /\ hist.rewritten[i].t = "var"
          /\ Len(hist.rewritten[i].kids) = 1
          /\ IsLegacyRequireAnyLayers(hist.rewritten[i].kids[1])
          /\ ~IsLegacyRequireOneLayer(hist.rewritten[i].kids[1])
          /\ \A p \in 1..Len(hist.managed) : hist.managed[p].span[1] # i
    /\ \E i \in 1..Len(hist.rewritten), p \in 1..Len(hist.managed) :
          /\ hist.rewritten[i].t = "var"
          /\ Len(hist.rewritten[i].kids) = 4
          /\ hist.managed[p].span = hist.rewritten[i].span
          /\ Len(hist.managed[p].kids) = 3
          /\ \A k \in 1..3 : hist.managed[p].kids[k].name \in {"y", "z", "d"}

IsLegacyImport(item) == item.t = "import" /\ MatchesAlias(item.name)

HasLegacyRequire(item) ==
    /\ item.t = "var"
    /\ \E k \in 1..Len(item.kids) : IsLegacyRequireAnyLayers(item.kids[k])

\* an item of the rewritten module that is outside the Import Manager's removals
IsFrameItem(item) == ~IsLegacyImport(item) /\ ~HasLegacyRequire(item)

\* the item of the managed module is one the parser produced for a frame item
IsOfFrameItem(item) ==
    \E k \in 1..Len(hist.rewritten) :
        hist.rewritten[k].span = item.span /\ IsFrameItem(hist.rewritten[k])

FrameBefore == SelectSeq(hist.rewritten, IsFrameItem)

FrameAfter == SelectSeq(hist.managed, IsOfFrameItem)

\* the managed module's items that no item of the rewritten module gave rise to
AddedItems ==
    {p \in 1..Len(hist.managed) :
        \A k \in 1..Len(hist.rewritten) : hist.rewritten[k].span # hist.managed[p].span}

ModifiedItems ==
    {k \in 1..Len(FrameBefore) : k > Len(FrameAfter) \/ FrameAfter[k] # FrameBefore[k]}

\* the same declaration with exactly one more specifier at the end
GainedOneSpecifier(old, new) ==
    /\ Len(new.kids) = Len(old.kids) + 1
    /\ new = [old EXCEPT !.kids = Append(@, new.kids[Len(new.kids)])]

(***************************************************************************)
(* C26: the Import Manager keeps every module item that is neither a legacy *)
(* ESM import nor a top-level variable declaration with a legacy require,   *)
(* unchanged and in the same relative order; the only item it may add is    *)
(* one runtime import or require, and the only kept item it may modify is   *)
(* an existing import of the runtime module, which gains exactly one        *)
(* specifier.                                                               *)
(***************************************************************************)
C26_ImportManagerFrame ==
    ManagerRan =>
        /\ Len(FrameAfter) = Len(FrameBefore)
        /\ \A k \in ModifiedItems :
              /\ IsRuntimeImportDecl(FrameBefore[k])
              /\ GainedOneSpecifier(FrameBefore[k], FrameAfter[k])
        /\ \A p \in AddedItems : hist.managed[p] = Synthesized
        /\ Cardinality(AddedItems) + Cardinality(ModifiedItems) <= 1
        /\ \A p \in 1..Len(hist.managed) :
              p \in AddedItems \/ \E k \in 1..Len(hist.rewritten) :
                                     /\ hist.rewritten[k].span = hist.managed[p].span
                                     /\ ~IsLegacyImport(hist.rewritten[k])

\* a legacy import was removed, an import, a require declaration or a
\* statement next to it was kept, and the runtime import or require was added
C26_Witness ==
    /\ ManagerRan
    /\ \E k \in 1..Len(hist.rewritten) : IsLegacyImport(hist.rewritten[k])
    /\ Len(FrameBefore) >= 2
    /\ FrameAfter = FrameBefore
    /\ Cardinality(AddedItems) = 1
    /\ Len(hist.managed) = Len(FrameBefore) + 1

\* the legacy imports and the declarations with a legacy require of a body
LegacyItems(body) ==
    SelectSeq(body, LAMBDA item : IsLegacyImport(item) \/ HasLegacyRequire(item))

OutputItems == ParseModule(result.output_code).body

(***************************************************************************)
(* C27: legacy imports are stripped only in files that have at least one    *)
(* replacement directive: a module that imports from a legacy alias but in  *)
(* which no call site resolves to an artifact (no builder-shaped call, or   *)
(* only calls with ArtifactNotFound/MetadataNotFound) is returned           *)
(* byte-identical with transformed = false and its legacy import still      *)
(* present.                                                                 *)
(***************************************************************************)
C27_LegacyKeptWithoutDirective ==
    (PipelineRan /\ Len(LegacyItems(hist.parsed)) > 0) =>
        /\ DirectiveSites = {} =>
              /\ result.status = "ok"
              /\ ~result.transformed
              /\ result.output_code = input.source_code
              /\ LegacyItems(OutputItems) = LegacyItems(hist.parsed)
              /\ hist.managed = <<>>
        /\ LegacyItems(OutputItems) # LegacyItems(hist.parsed) => DirectiveSites # {}

\* a legacy import next to a call site without artifact and one without metadata
C27_Witness ==
    /\ PipelineRan
    /\ \E k \in 1..Len(hist.parsed) : IsLegacyImport(hist.parsed[k])
    /\ \E i \in Sites : Outcome(i) = "SODA_GQL_ANALYSIS_ARTIFACT_NOT_FOUND"
    /\ \E i \in Sites : Outcome(i) = "SODA_GQL_METADATA_NOT_FOUND"
    /\ DirectiveSites = {}
    /\ Len(result.errors) = 2
    /\ result.output_code = input.source_code
    /\ ~result.transformed

\* the import specifiers of a body that introduce the local binding gqlRuntime
RuntimeSpecifiers(body) ==
    {<<p, k>> \in (1..Len(body)) \X (1..2) :
        /\ body[p].t = "import"
        /\ k <= Len(body[p].kids)
        /\ body[p].kids[k].name = "gqlRuntime"}

\* the top-level declarations of a body that declare __soda_gql_runtime
RuntimeDeclarations(body) ==
    {p \in 1..Len(body) :
        /\ body[p].t = "var"
        /\ \E k \in 1..Len(body[p].kids) : body[p].kids[k].name = "__soda_gql_runtime"}

(***************************************************************************)
(* C28: after the Import Manager has run with the runtime import needed,    *)
(* the local binding gqlRuntime (ESM) is introduced by at most one import   *)
(* specifier over all import declarations of the module, and in CJS mode    *)
(* __soda_gql_runtime is declared by at most one top-level declaration, for *)
(* every input module, also one that already contains imports or requires   *)
(* of the runtime module.                                                   *)
(***************************************************************************)
C28_RuntimeBindingOnce ==
    (ManagerRan /\ transformer.needs_runtime) =>
        IF input.config.is_cjs
        THEN Cardinality(RuntimeDeclarations(hist.managed)) <= 1
        ELSE Cardinality(RuntimeSpecifiers(hist.managed)) <= 1

\* the directives whose synthesis succeeds, by protocol
BuiltSites ==
    {sp \in DOMAIN finder.replacements :
        Len(finder.replacements[sp].builder_args)
            >= ArgsNeeded(finder.replacements[sp].artifact.type)}

RegisteredKinds == {"operation", "inlineOperation"}

DirectKinds == {"model", "slice"}

BuiltOf(kinds) == {sp \in BuiltSites : finder.replacements[sp].artifact.type \in kinds}

RECURSIVE SiteImage(_, _, _), SiteImageKids(_, _, _, _)
\* what stands in the tree `after` at the place of the call of span sp of the tree `before`
SiteImage(before, after, sp) ==
    IF before.t = "call" /\ before.span = sp THEN {after}
    ELSE IF Len(before.kids) # Len(after.kids) THEN {}
    ELSE SiteImageKids(before.kids, after.kids, 1, sp)

SiteImageKids(before, after, i, sp) ==
    IF i > Len(before) THEN {}
    ELSE SiteImage(before[i], after[i], sp) \cup SiteImageKids(before, after, i + 1, sp)

RuntimeAccessor ==
    IF input.config.is_cjs THEN <<"__soda_gql_runtime", "gqlRuntime">> ELSE <<"gqlRuntime">>

\* gqlRuntime.<method>(<args>) as the synthesizer builds it
RuntimeCall(method, args) ==
    [t |-> "call", name |-> "", callee |-> RuntimeAccessor \o <<method>>, kids |-> args,
     span |-> DUMMY_SP]

\* the lookup call by the artifact's operation name
LookupOf(directive) ==
    RuntimeCall(IF directive.artifact.type = "operation" THEN "getComposedOperation"
                ELSE "getInlineOperation",
                <<StrLit(directive.artifact.prebuild.operation_name)>>)

\* the single runtime call with the prebuild fields and the preserved callback
DirectCallOf(directive) ==
    LET model == directive.artifact.type = "model"
    IN  RuntimeCall(directive.artifact.type, <<ObjectLit(<<
            KeyValue("prebuild", ObjectLit(<<
                IF model THEN KeyValue("typename", StrLit(directive.artifact.prebuild.typename))
                ELSE KeyValue("operationType",
                              StrLit(directive.artifact.prebuild.operation_type))>>)),
            KeyValue("runtime", ObjectLit(<<
                KeyValue(IF model THEN "normalize" ELSE "buildProjection",
                         directive.builder_args[3])>>))>>)>>)

IsRegistrationFor(stmt, name) ==
    /\ stmt.t = "stmt" /\ stmt.kids[1].t = "call"
    /\ stmt.kids[1].callee \in {RuntimeAccessor \o <<"composedOperation">>,
                                RuntimeAccessor \o <<"inlineOperation">>}
    /\ Len(stmt.kids[1].kids) = 1
    /\ stmt.kids[1].kids[1].t = "object"
    /\ stmt.kids[1].kids[1].kids[1].name = "prebuild"
    /\ stmt.kids[1].kids[1].kids[1].kids[1]
          = Call(<<"JSON", "parse">>, <<StrLit("{\"operationName\":\"" \o name \o "\"}")>>, 0)

ImagesOf(sp) ==
    UNION {SiteImage(hist.parsed[k], hist.rewritten[k], sp) : k \in 1..Len(hist.parsed)}

CalledOnOutput ==
    /\ pc = "instance"
    /\ instance.status = "ok"
    /\ result.status = "ok"
    /\ result.transformed
    /\ last_call.source_path = input.source_path
    /\ last_call.source_code = result.output_code

(***************************************************************************)
(* C30: transforming the outputCode of a successful transform again with    *)
(* the same source path, artifact table and config is a no-op: the second   *)
(* call returns transformed = false and its outputCode equals its input.    *)
(***************************************************************************)
C30_RetransformIsNoOp ==
    CalledOnOutput =>
        /\ last_call.result.status = "ok"
        /\ ~last_call.result.transformed
        /\ last_call.result.output_code = last_call.source_code

====
